---- MODULE Spec2Model ----
(***************************************************************************)
(* Model of the folder-galaxy scan engine: scanDirectory (the tree walker, *)
(* its bounded runner pMap, the below-ceiling summation sumAllBelow and    *)
(* the aggregation pass) together with the scan-directory / cancel-scan    *)
(* IPC handlers of the main process.                                       *)
(*                                                                         *)
(* Execution model.  Node runs one macrotask at a time (the completion of  *)
(* a filesystem call, or the arrival of an IPC request) and then drains    *)
(* the microtask queue (promise reactions) before the next macrotask.      *)
(* Every filesystem call is a pending macrotask of the op or frame that    *)
(* awaits it; every promise reaction (.then/.catch of the runner, the      *)
(* continuation of an await on a runner or on a recursive call) is an      *)
(* action of its own that has priority over macrotasks.  The order of the  *)
(* runnable promise reactions is left open.                                *)
(***************************************************************************)
EXTENDS Integers, Sequences, FiniteSets, TLC

(***************************************************************************)
(* Program constants                                                       *)
(***************************************************************************)
DEFAULT_MAX_DEPTH == 2
DEFAULT_CONCURRENCY == 64
MAX_CONCURRENCY == 256
THROTTLE_MS == 120
\* 10_000 in the source; the model keeps the comparison
\* collectFiles.length >= MAX_FILE_THRESHOLD and scales the value so that the
\* bounded trees below hold more files than the cap.
MAX_FILE_THRESHOLD == 2

(***************************************************************************)
(* Bounds of the model                                                     *)
(***************************************************************************)
\* concurrency values a caller passes
MaxConcurrency == 2
\* largest maxDepth a caller passes (the deepest tree has depth 2)
MaxMaxDepth == 2
\* the clock advances in steps of TickMs; time since the last emission
\* saturates at THROTTLE_MS
TickMs == 120
\* longest chain of nested walk/sumAllBelow calls the model follows
MaxNest == 4

SID == "s1"

\* the scan id of another request
OID == "s2"

Groups == {"video", "image", "audio", "document", "code", "archive", "other"}

(***************************************************************************)
(* File names, extensions and the type classifier (fileTypes.ts)           *)
(***************************************************************************)
\* the characters of the strings used as names and as extensions
Spell ==
  ( "thumbs.db" :> << "t", "h", "u", "m", "b", "s", ".", "d", "b" >> )
  @@ ( "desktop.ini" :> << "d", "e", "s", "k", "t", "o", "p", ".", "i", "n", "i" >> )
  @@ ( "$recycle.bin" :> << "$", "r", "e", "c", "y", "c", "l", "e", ".", "b", "i", "n" >> )
  @@ ( "f.png" :> << "f", ".", "p", "n", "g" >> )
  @@ ( "g.TXT" :> << "g", ".", "T", "X", "T" >> )
  @@ ( "h.mp3" :> << "h", ".", "m", "p", "3" >> )
  @@ ( "k.bin" :> << "k", ".", "b", "i", "n" >> )
  @@ ( ".hid" :> << ".", "h", "i", "d" >> )
  @@ ( ".git" :> << ".", "g", "i", "t" >> )
  @@ ( "a" :> << "a" >> )
  @@ ( "b" :> << "b" >> )
  @@ ( "d" :> << "d" >> )
  @@ ( "s" :> << "s" >> )
  @@ ( "l" :> << "l" >> )
  @@ ( "ls" :> << "l", "s" >> )
  @@ ( "lf" :> << "l", "f" >> )
  @@ ( "up" :> << "u", "p" >> )
  @@ ( "movie.TS" :> << "m", "o", "v", "i", "e", ".", "T", "S" >> )
  @@ ( "clip.Mp4" :> << "c", "l", "i", "p", ".", "M", "p", "4" >> )
  @@ ( "a.tar.gz" :> << "a", ".", "t", "a", "r", ".", "g", "z" >> )
  @@ ( "README" :> << "R", "E", "A", "D", "M", "E" >> )
  @@ ( "x.unknown" :> << "x", ".", "u", "n", "k", "n", "o", "w", "n" >> )
  @@ ( ".bashrc" :> << ".", "b", "a", "s", "h", "r", "c" >> )
  @@ ( "t" :> << "t" >> )
  @@ ( "Windows" :> << "W", "i", "n", "d", "o", "w", "s" >> )
  @@ ( "Users" :> << "U", "s", "e", "r", "s" >> )
  @@ ( "Bob" :> << "B", "o", "b" >> )
  @@ ( "AppData" :> << "A", "p", "p", "D", "a", "t", "a" >> )
  @@ ( "lw" :> << "l", "w" >> )
  @@ ( "7z" :> << "7", "z" >> )
  @@ ( "aac" :> << "a", "a", "c" >> )
  @@ ( "aiff" :> << "a", "i", "f", "f" >> )
  @@ ( "alac" :> << "a", "l", "a", "c" >> )
  @@ ( "arw" :> << "a", "r", "w" >> )
  @@ ( "avi" :> << "a", "v", "i" >> )
  @@ ( "bat" :> << "b", "a", "t" >> )
  @@ ( "bmp" :> << "b", "m", "p" >> )
  @@ ( "bz2" :> << "b", "z", "2" >> )
  @@ ( "c" :> << "c" >> )
  @@ ( "cab" :> << "c", "a", "b" >> )
  @@ ( "cjs" :> << "c", "j", "s" >> )
  @@ ( "cpp" :> << "c", "p", "p" >> )
  @@ ( "cr2" :> << "c", "r", "2" >> )
  @@ ( "cs" :> << "c", "s" >> )
  @@ ( "css" :> << "c", "s", "s" >> )
  @@ ( "csv" :> << "c", "s", "v" >> )
  @@ ( "dmg" :> << "d", "m", "g" >> )
  @@ ( "doc" :> << "d", "o", "c" >> )
  @@ ( "docx" :> << "d", "o", "c", "x" >> )
  @@ ( "epub" :> << "e", "p", "u", "b" >> )
  @@ ( "flac" :> << "f", "l", "a", "c" >> )
  @@ ( "flv" :> << "f", "l", "v" >> )
  @@ ( "gif" :> << "g", "i", "f" >> )
  @@ ( "go" :> << "g", "o" >> )
  @@ ( "gradle" :> << "g", "r", "a", "d", "l", "e" >> )
  @@ ( "gz" :> << "g", "z" >> )
  @@ ( "h" :> << "h" >> )
  @@ ( "heic" :> << "h", "e", "i", "c" >> )
  @@ ( "heif" :> << "h", "e", "i", "f" >> )
  @@ ( "hpp" :> << "h", "p", "p" >> )
  @@ ( "html" :> << "h", "t", "m", "l" >> )
  @@ ( "ico" :> << "i", "c", "o" >> )
  @@ ( "ini" :> << "i", "n", "i" >> )
  @@ ( "ipynb" :> << "i", "p", "y", "n", "b" >> )
  @@ ( "iso" :> << "i", "s", "o" >> )
  @@ ( "java" :> << "j", "a", "v", "a" >> )
  @@ ( "jpeg" :> << "j", "p", "e", "g" >> )
  @@ ( "jpg" :> << "j", "p", "g" >> )
  @@ ( "js" :> << "j", "s" >> )
  @@ ( "json" :> << "j", "s", "o", "n" >> )
  @@ ( "jsx" :> << "j", "s", "x" >> )
  @@ ( "kt" :> << "k", "t" >> )
  @@ ( "less" :> << "l", "e", "s", "s" >> )
  @@ ( "lz" :> << "l", "z" >> )
  @@ ( "lz4" :> << "l", "z", "4" >> )
  @@ ( "m4a" :> << "m", "4", "a" >> )
  @@ ( "m4v" :> << "m", "4", "v" >> )
  @@ ( "md" :> << "m", "d" >> )
  @@ ( "mjs" :> << "m", "j", "s" >> )
  @@ ( "mkv" :> << "m", "k", "v" >> )
  @@ ( "mov" :> << "m", "o", "v" >> )
  @@ ( "mp3" :> << "m", "p", "3" >> )
  @@ ( "mp4" :> << "m", "p", "4" >> )
  @@ ( "nef" :> << "n", "e", "f" >> )
  @@ ( "odp" :> << "o", "d", "p" >> )
  @@ ( "ods" :> << "o", "d", "s" >> )
  @@ ( "odt" :> << "o", "d", "t" >> )
  @@ ( "ogg" :> << "o", "g", "g" >> )
  @@ ( "opus" :> << "o", "p", "u", "s" >> )
  @@ ( "pdf" :> << "p", "d", "f" >> )
  @@ ( "php" :> << "p", "h", "p" >> )
  @@ ( "png" :> << "p", "n", "g" >> )
  @@ ( "ppt" :> << "p", "p", "t" >> )
  @@ ( "pptx" :> << "p", "p", "t", "x" >> )
  @@ ( "ps1" :> << "p", "s", "1" >> )
  @@ ( "py" :> << "p", "y" >> )
  @@ ( "r" :> << "r" >> )
  @@ ( "rar" :> << "r", "a", "r" >> )
  @@ ( "raw" :> << "r", "a", "w" >> )
  @@ ( "rb" :> << "r", "b" >> )
  @@ ( "rs" :> << "r", "s" >> )
  @@ ( "rtf" :> << "r", "t", "f" >> )
  @@ ( "scss" :> << "s", "c", "s", "s" >> )
  @@ ( "sh" :> << "s", "h" >> )
  @@ ( "sql" :> << "s", "q", "l" >> )
  @@ ( "svelte" :> << "s", "v", "e", "l", "t", "e" >> )
  @@ ( "svg" :> << "s", "v", "g" >> )
  @@ ( "swift" :> << "s", "w", "i", "f", "t" >> )
  @@ ( "tar" :> << "t", "a", "r" >> )
  @@ ( "tif" :> << "t", "i", "f" >> )
  @@ ( "tiff" :> << "t", "i", "f", "f" >> )
  @@ ( "toml" :> << "t", "o", "m", "l" >> )
  @@ ( "ts" :> << "t", "s" >> )
  @@ ( "tsx" :> << "t", "s", "x" >> )
  @@ ( "txt" :> << "t", "x", "t" >> )
  @@ ( "vue" :> << "v", "u", "e" >> )
  @@ ( "wav" :> << "w", "a", "v" >> )
  @@ ( "webm" :> << "w", "e", "b", "m" >> )
  @@ ( "webp" :> << "w", "e", "b", "p" >> )
  @@ ( "wma" :> << "w", "m", "a" >> )
  @@ ( "wmv" :> << "w", "m", "v" >> )
  @@ ( "xls" :> << "x", "l", "s" >> )
  @@ ( "xlsx" :> << "x", "l", "s", "x" >> )
  @@ ( "xml" :> << "x", "m", "l" >> )
  @@ ( "xz" :> << "x", "z" >> )
  @@ ( "yaml" :> << "y", "a", "m", "l" >> )
  @@ ( "yml" :> << "y", "m", "l" >> )
  @@ ( "zip" :> << "z", "i", "p" >> )
  @@ ( "zst" :> << "z", "s", "t" >> )
  @@ ( "Program Files" :> << "P", "r", "o", "g", "r", "a", "m", " ", "F", "i", "l", "e", "s" >> )
  @@ ( "Program Files (x86)" :> << "P", "r", "o", "g", "r", "a", "m", " ", "F", "i", "l", "e", "s", " ", "(", "x", "8", "6", ")" >> )
  @@ ( "ProgramData" :> << "P", "r", "o", "g", "r", "a", "m", "D", "a", "t", "a" >> )
  @@ ( "$Recycle.Bin" :> << "$", "R", "e", "c", "y", "c", "l", "e", ".", "B", "i", "n" >> )
  @@ ( "System Volume Information" :> << "S", "y", "s", "t", "e", "m", " ", "V", "o", "l", "u", "m", "e", " ", "I", "n", "f", "o", "r", "m", "a", "t", "i", "o", "n" >> )
  @@ ( "Recovery" :> << "R", "e", "c", "o", "v", "e", "r", "y" >> )
  @@ ( "PerfLogs" :> << "P", "e", "r", "f", "L", "o", "g", "s" >> )

\* String.prototype.toLowerCase, character by character
LowerChar_Identity(c) == c

LowerChar(c) ==
  CASE c = "A" -> "a" [] c = "B" -> "b" [] c = "C" -> "c" [] c = "D" -> "d"
    [] c = "E" -> "e" [] c = "F" -> "f" [] c = "G" -> "g" [] c = "H" -> "h"
    [] c = "I" -> "i" [] c = "J" -> "j" [] c = "K" -> "k" [] c = "L" -> "l"
    [] c = "M" -> "m" [] c = "N" -> "n" [] c = "O" -> "o" [] c = "P" -> "p"
    [] c = "Q" -> "q" [] c = "R" -> "r" [] c = "S" -> "s" [] c = "T" -> "t"
    [] c = "U" -> "u" [] c = "V" -> "v" [] c = "W" -> "w" [] c = "X" -> "x"
    [] c = "Y" -> "y" [] c = "Z" -> "z" [] OTHER -> c

toLowerCase(cs) == [k \in 1..Len(cs) |-> LowerChar(cs[k])]

\* path.extname of a base name: from the last dot on, empty when there is
\* no dot or the only dot is the first character
extname(cs) ==
  LET dots == {k \in 1..Len(cs) : cs[k] = "."}
      last == CHOOSE k \in dots : \A j \in dots : j <= k
  IN IF dots = {} \/ last = 1 THEN << >> ELSE SubSeq(cs, last, Len(cs))

\* path.extname(filePath).toLowerCase().replace(/^\./, '')
ExtOf(name) ==
  LET e == toLowerCase(extname(Spell[name]))
  IN IF e # << >> /\ e[1] = "." THEN Tail(e) ELSE e

VideoExts ==
  {"mp4", "mkv", "avi", "mov", "wmv", "flv", "webm", "m4v", "ts"}

ImageExts ==
  {"jpg", "jpeg", "png", "gif", "bmp", "svg", "webp", "tif", "tiff",
   "heic", "heif", "ico", "raw", "cr2", "nef", "arw"}

AudioExts ==
  {"mp3", "wav", "flac", "aac", "ogg", "m4a", "wma", "aiff", "alac", "opus"}

DocumentExts ==
  {"pdf", "doc", "docx", "ppt", "pptx", "xls", "xlsx", "csv", "md", "txt",
   "rtf", "odt", "ods", "odp", "epub"}

CodeExts ==
  {"js", "ts", "tsx", "jsx", "mjs", "cjs", "json", "yml", "yaml", "xml",
   "html", "css", "scss", "less", "vue", "svelte", "py", "java", "kt", "c",
   "h", "cpp", "hpp", "cs", "go", "rb", "rs", "php", "sql", "swift", "r",
   "ipynb", "sh", "bat", "ps1", "toml", "ini", "gradle"}

ArchiveExts ==
  {"zip", "rar", "7z", "tar", "gz", "bz2", "xz", "lz", "lz4", "zst", "iso",
   "dmg", "cab"}

\* for (const e of exts) EXT_MAP[e] = group
map(m, exts, group) ==
  [e \in DOMAIN m \cup exts |-> IF e \in exts THEN group ELSE m[e]]

\* the table after the six map(...) calls, in the order of the source; it
\* starts from Object.create(null), an object without inherited keys
EXT_MAP ==
  map(map(map(map(map(map(<< >>, VideoExts, "video"), ImageExts, "image"),
                  AudioExts, "audio"), DocumentExts, "document"),
          CodeExts, "code"), ArchiveExts, "archive")

\* the table by the characters of its keys
ExtTable ==
  [cs \in {Spell[e] : e \in DOMAIN EXT_MAP} |->
     EXT_MAP[CHOOSE e \in DOMAIN EXT_MAP : Spell[e] = cs]]

\* the property lookup EXT_MAP[ext]; undefined for an absent key
Lookup(ext) == IF ext \in DOMAIN ExtTable THEN ExtTable[ext] ELSE "undefined"

\* the classifier over the modelled names
GroupTable ==
  [name \in DOMAIN Spell |->
     IF Lookup(ExtOf(name)) = "undefined" THEN "other" ELSE Lookup(ExtOf(name))]

\* EXT_MAP[ext] || 'other'
getFileTypeGroup(name) == GroupTable[name]

\* name.startsWith('.'), or the lower-cased name is one of the noise files
HiddenNames ==
  {name \in DOMAIN Spell :
     LET cs == Spell[name]
     IN /\ cs # << >>
        /\ \/ cs[1] = "."
           \/ toLowerCase(cs) \in {Spell["thumbs.db"], Spell["desktop.ini"], Spell["$recycle.bin"]}}

isHiddenName(name) == name \in HiddenNames

(***************************************************************************)
(* The filesystem: a fixed tree per scan.  A path is the sequence of names *)
(* below the scan root; the root is << >>.  dirs maps every real directory *)
(* to its ordered listing.                                                 *)
(***************************************************************************)
FileE(name, size) == [name |-> name, kind |-> "file", size |-> size, readable |-> TRUE, target |-> << >>]
NoStatE(name, size) == [name |-> name, kind |-> "file", size |-> size, readable |-> FALSE, target |-> << >>]
DirE(name)       == [name |-> name, kind |-> "dir", size |-> 0, readable |-> TRUE, target |-> << >>]
LinkE(name, tgt)  == [name |-> name, kind |-> "link", size |-> 0, readable |-> TRUE, target |-> tgt]

\* nested directories with a file at every level (depth 2)
TreeDeep ==
  [dirs |-> ( << >>        :> << DirE("a"), FileE("f.png", 1) >> )
         @@ ( <<"a">>      :> << DirE("b"), FileE("g.TXT", 2) >> )
         @@ ( <<"a", "b">> :> << FileE("h.mp3", 4) >> ),
   platform |-> "linux", mount |-> << >>, unlistable |-> {}, rootLink |-> FALSE]

\* a link that points back to an ancestor (the root), and a hidden file
TreeCycle ==
  [dirs |-> ( << >>   :> << DirE("a"), FileE("f.png", 1) >> )
         @@ ( <<"a">> :> << LinkE("up", << >>), FileE(".hid", 8), FileE("g.TXT", 2) >> ),
   platform |-> "linux", mount |-> << >>, unlistable |-> {}, rootLink |-> FALSE]

\* a directory reachable by two routes, its entry and a link to it
TreeRace ==
  [dirs |-> ( << >>   :> << DirE("s"), LinkE("ls", <<"s">>) >> )
         @@ ( <<"s">> :> << FileE("k.bin", 4) >> ),
   platform |-> "linux", mount |-> << >>, unlistable |-> {}, rootLink |-> FALSE]

\* more files than the cap, one of them behind a link, one unreadable
TreeCap ==
  [dirs |-> ( << >>   :> << DirE("s"), LinkE("lf", <<"s", "k.bin">>), FileE("f.png", 1) >> )
         @@ ( <<"s">> :> << FileE("k.bin", 4), FileE("g.TXT", 2), NoStatE("h.mp3", 8) >> ),
   platform |-> "linux", mount |-> << >>, unlistable |-> {}, rootLink |-> FALSE]

\* the root path is not a directory
TreeNoRoot == [dirs |-> << >>, platform |-> "linux", mount |-> << >>, unlistable |-> {}, rootLink |-> FALSE]

\* the root path is a symbolic link to a directory
TreeLinkRoot ==
  [dirs |-> ( << >> :> << FileE("f.png", 1) >> ),
   platform |-> "linux", mount |-> << >>, unlistable |-> {}, rootLink |-> TRUE]

\* a directory that cannot be listed and a file whose size cannot be read
TreeErr ==
  [dirs |-> ( << >>   :> << DirE("d"), NoStatE("h.mp3", 8), FileE("f.png", 1) >> )
         @@ ( <<"d">> :> << FileE("k.bin", 4) >> ),
   platform |-> "linux", mount |-> << >>, unlistable |-> {<<"d">>}, rootLink |-> FALSE]

\* a directory reachable by two routes of different depth: through its
\* parent and through a link in the root
TreeShared ==
  [dirs |-> ( << >>        :> << DirE("a"), LinkE("l", <<"a", "b">>) >> )
         @@ ( <<"a">>      :> << DirE("b"), FileE("g.TXT", 2) >> )
         @@ ( <<"a", "b">> :> << FileE("h.mp3", 4), FileE("k.bin", 8) >> ),
   platform |-> "linux", mount |-> << >>, unlistable |-> {}, rootLink |-> FALSE]

\* one visible file of 100 bytes and one hidden file of 50 bytes
TreeHiddenFlat ==
  [dirs |-> ( << >> :> << FileE("f.png", 100), FileE(".hid", 50) >> ),
   platform |-> "linux", mount |-> << >>, unlistable |-> {}, rootLink |-> FALSE]

\* hidden entries below the root: a hidden file in a subdirectory, a
\* hidden directory with a file, a link to the subdirectory
TreeHiddenDeep ==
  [dirs |-> ( << >>      :> << DirE("s"), DirE(".git"), LinkE("ls", <<"s">>) >> )
         @@ ( <<"s">>    :> << FileE("g.TXT", 2), FileE(".hid", 8) >> )
         @@ ( <<".git">> :> << FileE("k.bin", 4) >> ),
   platform |-> "linux", mount |-> << >>, unlistable |-> {}, rootLink |-> FALSE]

\* file names with upper-case, double, unlisted and missing extensions
TreeTypes ==
  [dirs |-> ( << >>   :> << DirE("t"), LinkE("l", <<"t", "README">>),
                            FileE("movie.TS", 1), FileE("clip.Mp4", 2),
                            FileE("x.unknown", 4), FileE(".bashrc", 8) >> )
         @@ ( <<"t">> :> << FileE("a.tar.gz", 16), FileE("README", 32) >> ),
   platform |-> "linux", mount |-> << >>, unlistable |-> {}, rootLink |-> FALSE]

\* the root of a win32 drive: a reserved directory, a link to it, and a
\* user profile with its AppData directory
TreeWin ==
  [dirs |-> ( << >>                        :> << DirE("Windows"), LinkE("lw", <<"Windows">>),
                                                 DirE("Users") >> )
         @@ ( <<"Windows">>                :> << FileE("k.bin", 8) >> )
         @@ ( <<"Users">>                  :> << DirE("Bob") >> )
         @@ ( <<"Users", "Bob">>           :> << DirE("AppData") >> )
         @@ ( <<"Users", "Bob", "AppData">> :> << FileE("g.TXT", 2) >> ),
   platform |-> "win32", mount |-> << >>, unlistable |-> {}, rootLink |-> FALSE]

Trees == {TreeDeep, TreeCycle, TreeRace, TreeCap, TreeNoRoot, TreeLinkRoot, TreeErr}

IsDir(t, p) == p \in DOMAIN t.dirs

Parent(p) == SubSeq(p, 1, Len(p) - 1)
Last(p) == p[Len(p)]

\* the directory entry a path names, if its parent is a real directory
EntryAt(t, p) ==
  IF p = << >> \/ ~IsDir(t, Parent(p)) THEN {}
  ELSE {t.dirs[Parent(p)][k] : k \in {j \in 1..Len(t.dirs[Parent(p)]) : t.dirs[Parent(p)][j].name = Last(p)}}

\* fs.lstat: "dir", "file" (with its size), "link", or "none" when it fails
Lstat(t, p) ==
  IF IsDir(t, p) THEN [kind |-> "dir", size |-> 0]
  ELSE IF EntryAt(t, p) = {} THEN [kind |-> "none", size |-> 0]
  ELSE LET e == CHOOSE x \in EntryAt(t, p) : TRUE
       IN [kind |-> e.kind, size |-> e.size]

\* statSafe(rootPath): lstat does not follow a link in the last component
RootStat(t) ==
  IF t.rootLink THEN [kind |-> "link", size |-> 0] ELSE Lstat(t, << >>)

\* fs.realpath of a directory the walk descends into: it descends through
\* real directories and resolved link targets only, so the path is canonical
RealPath(t, p) == p

(***************************************************************************)
(* State                                                                   *)
(***************************************************************************)
VARIABLES
  tree,             \* the filesystem below the root path of the request
  options,          \* the ScanOptions of the request
  handler,          \* position of the scan-directory handler
  scan,             \* position and outcome of scanDirectory
  scanAbortMap,     \* scan id -> token {cancelled}
  frames,           \* calls of walk / sumAllBelow, by call path
  ops,              \* per-entry operations of the runner calls
  visitedRealPaths, \* Set of canonical paths
  fileCounter,      \* fileCounter.count
  dirCounter,       \* dirCounter.count
  collectFiles,     \* FileStats collected so far
  emitSince,        \* ms since emit._last, -1 while emit._last is unset
  progress,         \* scan-progress events sent to the renderer
  listed,           \* history: canonical path -> number of readdir calls
  firstFatal,       \* history: first failure raised inside the scan
  cancelledEarly,   \* history: cancel flag set before the root runner resolved
  firstResult,      \* history: the ScanResult of an earlier scan of the same request
  peer              \* another scan-directory invocation running at the same time

vars == << tree, options, handler, scan, scanAbortMap, frames, ops,
           visitedRealPaths, fileCounter, dirCounter, collectFiles,
           emitSince, progress, listed, firstFatal, cancelledEarly,
           firstResult, peer >>

Min(a, b) == IF a < b THEN a ELSE b
Max(a, b) == IF a > b THEN a ELSE b

\* f with key k bound to v (Map.set / a new array slot)
Put(f, k, v) == [x \in DOMAIN f \cup {k} |-> IF x = k THEN v ELSE f[x]]

\* the ?? operator on an options object
Nullish(o, k, d) == IF k \in DOMAIN o THEN o[k] ELSE d

(***************************************************************************)
(* Option parsing at the head of scanDirectory                             *)
(***************************************************************************)
maxDepth == Nullish(options, "maxDepth", DEFAULT_MAX_DEPTH)
followSymlinks == Nullish(options, "followSymlinks", FALSE)
includeHidden == Nullish(options, "includeHidden", FALSE)
includeSystem == Nullish(options, "includeSystem", FALSE)
\* per-file leaves collected whatever the request says
includeFiles_Always == TRUE

includeFiles == Nullish(options, "includeFiles", FALSE)

\* a ceiling that is capped at the maximum but has no floor
concurrency_NoFloor == Min(Nullish(options, "concurrency", DEFAULT_CONCURRENCY), MAX_CONCURRENCY)

concurrency == Max(1, Min(Nullish(options, "concurrency", DEFAULT_CONCURRENCY), MAX_CONCURRENCY))

\* crypto sha1 of the path, 12 hex digits: distinct paths of the bounded
\* trees have distinct identifiers, so the path stands for its hash
makeId(fullPath) == fullPath

\* process.platform === 'win32'
isWindows == tree.platform = "win32"

\* a path is the sequence of its segments below path.parse(rootPath).root,
\* each segment a sequence of characters; on win32 the path is lower-cased
normalizeCase(p) ==
  IF isWindows THEN [k \in 1..Len(p) |-> toLowerCase(p[k])] ELSE p

\* path.join(dir, name) of a path below the scan root, as segments below the
\* root of its drive
Segments(p) == [k \in 1..Len(tree.mount) + Len(p) |->
                  IF k <= Len(tree.mount) THEN Spell[tree.mount[k]]
                  ELSE Spell[p[k - Len(tree.mount)]]]

\* the reserved directories of the platform, joined to the root of the drive
systemExcludes ==
  IF ~isWindows \/ includeSystem THEN {}
  ELSE {normalizeCase(<< Spell[b] >>) :
          b \in {"Windows", "Program Files", "Program Files (x86)", "ProgramData",
                 "$Recycle.Bin", "System Volume Information", "Recovery", "PerfLogs"}}

\* s === prefix || s.startsWith(prefix + path.sep), on segments
StartsWithDir(s, prefix) ==
  Len(s) >= Len(prefix) /\ SubSeq(s, 1, Len(prefix)) = prefix

\* np is lower-cased before segs[1] is compared with the literal 'AppData'
isExcludedDir(p) ==
  IF systemExcludes = {} THEN FALSE
  ELSE LET np    == normalizeCase(Segments(p))
           users == normalizeCase(<< Spell["Users"] >>)
       IN IF \E base \in systemExcludes : StartsWithDir(np, base) THEN TRUE
          ELSE IF Len(np) > Len(users) /\ StartsWithDir(np, users)
               THEN LET segs == SubSeq(np, Len(users) + 1, Len(np))
                    IN Len(segs) >= 2 /\ segs[2] = Spell["AppData"]
               ELSE FALSE

(***************************************************************************)
(* Type breakdowns.  An absent key of the source's partial record is the   *)
(* zero entry: the code creates an entry only together with count >= 1.    *)
(***************************************************************************)
EmptyTB == [g \in Groups |-> [size |-> 0, count |-> 0]]

addFileToBreakdown(tb, group, size) ==
  [tb EXCEPT ![group] = [size |-> @.size + size, count |-> @.count + 1]]

mergeBreakdown(into, from) ==
  [g \in Groups |-> [size |-> into[g].size + from[g].size,
                     count |-> into[g].count + from[g].count]]

(***************************************************************************)
(* isCancelled of the scan-directory handler, called by cancelled()        *)
(***************************************************************************)
\* a predicate that reads every token of the map
isCancelled_AnyToken == \E k \in DOMAIN scanAbortMap : scanAbortMap[k].cancelled

isCancelled == SID \in DOMAIN scanAbortMap /\ scanAbortMap[SID].cancelled

cancelled == isCancelled

(***************************************************************************)
(* Failures.  The model names a failure by its origin ("invalidRoot",      *)
(* "cancelled", "cap"); the value thrown is in each case a plain           *)
(* `new Error(message)`, and the handler returns `err.message`.            *)
(***************************************************************************)
ErrorMessage(kind) ==
  CASE kind = "invalidRoot" -> "Root path is not a directory"
    [] kind = "cancelled"   -> "Scan cancelled"
    [] kind = "cap"         -> "Too many files to include in file-level view"
    [] OTHER                -> kind

\* the properties of the thrown object a caller can inspect
ErrorObject(kind) == [name |-> "Error", message |-> ErrorMessage(kind)]

(***************************************************************************)
(* Frames: one per call of walk or sumAllBelow.  The call made for entry k *)
(* of the frame c has the call path Append(c, k); the root call is << >>.  *)
(* For walk, directSize/directFileCount/typeBreakdown/children are the     *)
(* FolderNode; for sumAllBelow they are the locals size/count/tb.          *)
(***************************************************************************)
NewFrame(kind, path, depth) ==
  [kind |-> kind, path |-> path, depth |-> depth,
   pc |-> "realpath", err |-> "none",
   entries |-> << >>, ret |-> << >>, i |-> 0, active |-> 0,
   pstatus |-> "none", perr |-> "none",
   directSize |-> 0, directFileCount |-> 0, typeBreakdown |-> EmptyTB,
   children |-> << >>]

NewOp(pc) == [pc |-> pc, err |-> "none", real |-> << >>]

\* the entry an operation was started for, its frame and its full path
FrameOf(o) == Parent(o)
EntryOf(fr, o) == fr[FrameOf(o)].entries[Last(o)]
FullOf(fr, o) == Append(fr[FrameOf(o)].path, EntryOf(fr, o).name)

\* a link followed whatever the request says
SymlinkFirstPc_AlwaysFollow == "linkReal"

\* if (!followSymlinks) return; otherwise fs.realpath(full) is awaited
SymlinkFirstPc == IF ~followSymlinks THEN "ok" ELSE "linkReal"

\* a per-entry function whose hidden-name test is made by walk only
FirstPc_HiddenInSum(F, e) ==
  IF ~includeHidden /\ isHiddenName(e.name) /\ F.kind = "walk" THEN "ok"
  ELSE IF e.kind = "dir" /\ isExcludedDir(Append(F.path, e.name)) THEN "ok"
  ELSE IF e.kind = "link" THEN SymlinkFirstPc
  ELSE IF e.kind = "dir" THEN "child"
  ELSE IF e.kind = "file" THEN "stat"
  ELSE "ok"

\* the part of the per-entry function that runs before its first await:
\* where the operation is suspended (or "ok" when it has returned)
FirstPc(F, e) ==
  IF ~includeHidden /\ isHiddenName(e.name) THEN "ok"
  ELSE IF e.kind = "dir" /\ isExcludedDir(Append(F.path, e.name)) THEN "ok"
  ELSE IF e.kind = "link" THEN SymlinkFirstPc
  ELSE IF e.kind = "dir" THEN "child"
  ELSE IF e.kind = "file" THEN "stat"
  ELSE "ok"

\* the recursive call a directory makes for a subdirectory found at path p
ChildCall(F, p) ==
  IF F.kind = "walk" /\ F.depth + 1 <= maxDepth
  THEN NewFrame("walk", p, F.depth + 1)
  ELSE NewFrame("sum", p, F.depth + 1)

(***************************************************************************)
(* pMap: resolve, reject and next()                                        *)
(***************************************************************************)
\* settling a promise that is already settled has no effect
Resolve(fr, f) ==
  IF fr[f].pstatus = "pending" THEN [fr EXCEPT ![f].pstatus = "resolved"] ELSE fr

Reject(fr, f, err) ==
  IF fr[f].pstatus = "pending"
  THEN [fr EXCEPT ![f].pstatus = "rejected", ![f].perr = err]
  ELSE fr

\* a count that charges a runner call with the slots its ancestors hold
\* while they wait for it
SlotsTaken_WithAncestors(F) == F.active + F.depth

\* active, a local of the pMap call: the operations of this call in flight
SlotsTaken(F) == F.active

\* a loop that does not look at the number of active operations
Launches_Unbounded(F, limit) == Len(F.entries) - F.i

\* how many operations the while loop of next() starts
Launches(F, limit) == Max(0, Min(limit - SlotsTaken(F), Len(F.entries) - F.i))

StartOps(fr, os, f, limit) ==
  LET F == fr[f]
      n == Launches(F, limit)
      new == (F.i + 1)..(F.i + n)
      newOps == {Append(f, k) : k \in new}
      dirOps == {o \in newOps : FirstPc(F, F.entries[Last(o)]) = "child"}
      fr1 == [fr EXCEPT ![f].i = @ + n, ![f].active = @ + n]
  IN [frames |-> [x \in DOMAIN fr1 \cup dirOps |->
                    IF x \in dirOps
                    THEN ChildCall(F, Append(F.path, F.entries[Last(x)].name))
                    ELSE fr1[x]],
      ops |-> [x \in DOMAIN os \cup newOps |->
                    IF x \in newOps
                    THEN NewOp(FirstPc(F, F.entries[Last(x)]))
                    ELSE os[x]]]

\* next() with the completion test ahead of the cancellation test
RunNext_ResolveFirst(fr, os, f, limit) ==
  IF fr[f].i = Len(fr[f].entries) /\ fr[f].active = 0
  THEN [frames |-> Resolve(fr, f), ops |-> os]
  ELSE IF cancelled THEN [frames |-> Reject(fr, f, "cancelled"), ops |-> os]
       ELSE StartOps(fr, os, f, limit)

\* next() of the runner call of frame f
RunNext(fr, os, f, limit) ==
  IF cancelled THEN [frames |-> Reject(fr, f, "cancelled"), ops |-> os]
  ELSE IF fr[f].i = Len(fr[f].entries) /\ fr[f].active = 0
       THEN [frames |-> Resolve(fr, f), ops |-> os]
       ELSE StartOps(fr, os, f, limit)

\* an empty slot of new Array(items.length): no operation has the index 0
Hole == << 0 >>

\* a .then that files the value under the number of values filed so far
RetSlot_CompletionOrder(F, o) ==
  Cardinality({k \in 1..Len(F.ret) : F.ret[k] # Hole}) + 1

\* cur, the index next() gave the operation when it started it
RetSlot(F, o) == Last(o)

\* ret[cur] = v.  The per-entry functions of walk and sumAllBelow return
\* no value; the value is represented by the operation that produced it.
StoreRet(fr, o) ==
  [fr EXCEPT ![FrameOf(o)].ret[RetSlot(fr[FrameOf(o)], o)] = o]

\* pMap(entries, limit, fn): a new promise, then the first next()
PMap(fr, os, f, entries, limit) ==
  RunNext([fr EXCEPT ![f].entries = entries,
                     ![f].ret = [k \in 1..Len(entries) |-> Hole],
                     ![f].i = 0, ![f].active = 0,
                     ![f].pstatus = "pending", ![f].pc = "pmap"],
          os, f, limit)

(***************************************************************************)
(* emit(phase): throttled progress emission of scanDirectory               *)
(***************************************************************************)
ProgressEvent(phase, files, dirs) ==
  [scanId |-> SID, scannedFiles |-> files, scannedDirs |-> dirs, phase |-> phase]

\* an emit without the throttle test
emit_Unthrottled(phase, files, dirs) ==
  [since |-> 0, progress |-> Append(progress, ProgressEvent(phase, files, dirs))]

emit(phase, files, dirs) ==
  IF emitSince >= 0 /\ emitSince < THROTTLE_MS /\ phase = "enumerating"
  THEN [since |-> emitSince, progress |-> progress]
  ELSE [since |-> 0, progress |-> Append(progress, ProgressEvent(phase, files, dirs))]

(***************************************************************************)
(* aggregate(node): the bottom-up pass over the FolderNode tree.  folders  *)
(* is the part of the output array pushed during the call.  The field node *)
(* of a FolderStats names the FolderNode it was computed from (history).   *)
(***************************************************************************)
RECURSIVE aggregate(_, _)
RECURSIVE AggregateChildren(_, _, _)

\* a pass that adds the children's sizes and counts but not their breakdowns
AggregateChildren_NoMerge(fr, chs, acc) ==
  IF chs = << >> THEN acc
  ELSE LET agg == aggregate(fr, Head(chs))
       IN AggregateChildren(fr, Tail(chs),
            [totalSize |-> acc.totalSize + agg.totalSize,
             fileCount |-> acc.fileCount + agg.fileCount,
             typeBreakdown |-> acc.typeBreakdown,
             folders |-> acc.folders \o agg.folders])

\* the loop `for (const ch of node.children)` of aggregate
AggregateChildren(fr, chs, acc) ==
  IF chs = << >> THEN acc
  ELSE LET agg == aggregate(fr, Head(chs))
       IN AggregateChildren(fr, Tail(chs),
            [totalSize |-> acc.totalSize + agg.totalSize,
             fileCount |-> acc.fileCount + agg.fileCount,
             typeBreakdown |-> mergeBreakdown(acc.typeBreakdown, agg.typeBreakdown),
             folders |-> acc.folders \o agg.folders])

\* a count of all the nodes below, not of the immediate children
SubfolderCount_Recursive(fr, node, acc) == Len(acc.folders)

\* let subfolderCount = node.children.length
SubfolderCount(fr, node, acc) == Len(node.children)

\* a push that loses the nodes that have no children
PushStats_LeavesLost(folders, stats) ==
  IF stats.childrenIds = << >> THEN folders ELSE Append(folders, stats)

\* folders.push(stats)
PushStats(folders, stats) == Append(folders, stats)

aggregate(fr, f) ==
  LET node == fr[f]
      acc == AggregateChildren(fr, node.children,
               [totalSize |-> node.directSize,
                fileCount |-> node.directFileCount,
                typeBreakdown |-> node.typeBreakdown,
                folders |-> << >>])
      stats == [id |-> makeId(node.path), path |-> node.path, depth |-> node.depth,
                totalSize |-> acc.totalSize, fileCount |-> acc.fileCount,
                subfolderCount |-> SubfolderCount(fr, node, acc),
                typeBreakdown |-> acc.typeBreakdown,
                childrenIds |-> [k \in 1..Len(node.children) |-> makeId(fr[node.children[k]].path)],
                node |-> f]
  IN [totalSize |-> acc.totalSize, fileCount |-> acc.fileCount,
      typeBreakdown |-> acc.typeBreakdown,
      subfolderCount |-> SubfolderCount(fr, node, acc),
      folders |-> PushStats(acc.folders, stats)]

(***************************************************************************)
(* Scheduling: promise reactions run before the next macrotask             *)
(***************************************************************************)
FrameSettled(f) == f \in DOMAIN frames /\ frames[f].pc \in {"returned", "threw"}

ReactionPending ==
  \/ \E o \in DOMAIN ops : ops[o].pc \in {"ok", "raised"}
  \/ \E o \in DOMAIN ops : ops[o].pc = "child" /\ FrameSettled(o)
  \/ \E f \in DOMAIN frames : frames[f].pc = "pmap" /\ frames[f].pstatus \in {"resolved", "rejected"}
  \/ scan.pc = "walking" /\ FrameSettled(<< >>)
  \/ handler.pc = "awaitScan" /\ scan.pc \in {"resolved", "rejected"}

NestOK(fr) == \A f \in DOMAIN fr : Len(f) <= MaxNest

\* a chain of directories two levels deep whose last one holds a file and
\* a link to that file
TreeChain ==
  [dirs |-> ( << >>        :> << DirE("a") >> )
         @@ ( <<"a">>      :> << DirE("b") >> )
         @@ ( <<"a", "b">> :> << LinkE("lf", <<"a", "b", "h.mp3">>), FileE("h.mp3", 4) >> ),
   platform |-> "linux", mount |-> << >>, unlistable |-> {}, rootLink |-> FALSE]

NoteFatal(kind) == IF firstFatal = "none" THEN kind ELSE firstFatal

(***************************************************************************)
(* Initial state: the main process is up, no scan has been requested.      *)
(* tree and options are the request that will arrive.                      *)
(***************************************************************************)
OptionSets ==
  [maxDepth : 0..MaxMaxDepth, followSymlinks : BOOLEAN, includeHidden : {FALSE},
   includeFiles : BOOLEAN, concurrency : 1..MaxConcurrency, scanId : {SID}]

\* the main process before any request
InitMain ==
  /\ handler = [pc |-> "idle", ok |-> FALSE, error |-> "none"]
  /\ scan = [pc |-> "none", err |-> "none", result |-> << >>]
  /\ scanAbortMap = << >>
  /\ frames = << >>
  /\ ops = << >>
  /\ visitedRealPaths = {}
  /\ fileCounter = 0
  /\ dirCounter = 0
  /\ collectFiles = << >>
  /\ emitSince = -1
  /\ progress = << >>
  /\ listed = << >>
  /\ firstFatal = "none"
  /\ cancelledEarly = FALSE
  /\ firstResult = {}
  /\ peer = [pc |-> "idle", id |-> OID, requested |-> FALSE, observed |-> FALSE]

Init ==
  /\ tree \in Trees
  /\ options \in OptionSets
  /\ InitMain

(***************************************************************************)
(* ipcMain.handle('scan-directory'): registers the token and calls         *)
(* scanDirectory, which runs up to its first await, statSafe(rootPath)     *)
(***************************************************************************)
HandlerInvoke ==
  /\ handler.pc = "idle"
  /\ scanAbortMap' = Put(scanAbortMap, SID, [cancelled |-> FALSE])
  /\ handler' = [handler EXCEPT !.pc = "awaitScan"]
  /\ scan' = [scan EXCEPT !.pc = "rootStat"]
  /\ UNCHANGED << tree, options, firstResult, peer, frames, ops, visitedRealPaths, fileCounter,
                  dirCounter, collectFiles, emitSince, progress, listed,
                  firstFatal, cancelledEarly >>

(***************************************************************************)
(* A second scan-directory request, with the same options on the same      *)
(* tree, after the first has returned a result: scanDirectory starts from  *)
(* fresh locals.  firstResult keeps what the first scan reported.          *)
(***************************************************************************)
\* what a ScanResult says about its folders
Digest(result) ==
  {[id |-> result.folders[j].id, path |-> result.folders[j].path,
    totalSize |-> result.folders[j].totalSize,
    fileCount |-> result.folders[j].fileCount,
    typeBreakdown |-> result.folders[j].typeBreakdown] : j \in 1..Len(result.folders)}

HandlerInvokeAgain ==
  /\ handler.pc = "returned" /\ handler.ok
  /\ firstResult = {}
  /\ firstResult' = Digest(scan.result)
  /\ scanAbortMap' = Put(scanAbortMap, SID, [cancelled |-> FALSE])
  /\ handler' = [pc |-> "awaitScan", ok |-> FALSE, error |-> "none"]
  /\ scan' = [pc |-> "rootStat", err |-> "none", result |-> << >>]
  /\ frames' = << >>
  /\ ops' = << >>
  /\ visitedRealPaths' = {}
  /\ fileCounter' = 0
  /\ dirCounter' = 0
  /\ collectFiles' = << >>
  /\ emitSince' = -1
  /\ progress' = << >>
  /\ listed' = << >>
  /\ firstFatal' = "none"
  /\ cancelledEarly' = FALSE
  /\ UNCHANGED << tree, options, peer >>

(***************************************************************************)
(* ipcMain.handle('cancel-scan')                                           *)
(***************************************************************************)
CancelScan ==
  /\ ~ReactionPending
  /\ IF SID \in DOMAIN scanAbortMap
     THEN /\ ~scanAbortMap[SID].cancelled
          /\ scanAbortMap' = [scanAbortMap EXCEPT ![SID].cancelled = TRUE]
     ELSE /\ handler.pc = "awaitScan" /\ ~cancelledEarly
          /\ UNCHANGED scanAbortMap
  /\ cancelledEarly' = (\/ cancelledEarly
                        \/ /\ scan.pc \in {"rootStat", "walking"}
                           /\ (<< >> \in DOMAIN frames => frames[<< >>].pstatus \in {"none", "pending"}))
  /\ UNCHANGED << tree, options, firstResult, peer, handler, scan, frames, ops, visitedRealPaths,
                  fileCounter, dirCounter, collectFiles, emitSince, progress,
                  listed, firstFatal >>

(***************************************************************************)
(* Another scan-directory invocation, from its registration of a token to  *)
(* its return: it has its own scanDirectory call with its own locals, and  *)
(* shares scanAbortMap with the first.  cancel-scan for its id.            *)
(***************************************************************************)
OtherInvoke(id) ==
  /\ ~ReactionPending
  /\ handler.pc = "awaitScan"
  /\ peer.pc = "idle"
  /\ peer' = [peer EXCEPT !.pc = "running", !.id = id]
  /\ scanAbortMap' = Put(scanAbortMap, id, [cancelled |-> FALSE])
  /\ UNCHANGED << tree, options, firstResult, handler, scan, frames, ops, visitedRealPaths,
                  fileCounter, dirCounter, collectFiles, emitSince, progress,
                  listed, firstFatal, cancelledEarly >>

\* isCancelled of the other invocation
OtherIsCancelled == peer.id \in DOMAIN scanAbortMap /\ scanAbortMap[peer.id].cancelled

OtherCancelScan ==
  /\ ~ReactionPending
  /\ peer.pc = "running"
  /\ peer.id \in DOMAIN scanAbortMap
  /\ ~scanAbortMap[peer.id].cancelled
  /\ scanAbortMap' = [scanAbortMap EXCEPT ![peer.id].cancelled = TRUE]
  /\ peer' = [peer EXCEPT !.requested = TRUE]
  /\ UNCHANGED << tree, options, firstResult, handler, scan, frames, ops, visitedRealPaths,
                  fileCounter, dirCounter, collectFiles, emitSince, progress,
                  listed, firstFatal, cancelledEarly >>

\* the other invocation returns, with a result or with a failure, and
\* deletes the entry of its id
OtherSettled ==
  /\ peer.pc = "running"
  /\ peer' = [peer EXCEPT !.pc = "returned", !.observed = OtherIsCancelled]
  /\ scanAbortMap' = [k \in DOMAIN scanAbortMap \ {peer.id} |-> scanAbortMap[k]]
  /\ UNCHANGED << tree, options, firstResult, handler, scan, frames, ops, visitedRealPaths,
                  fileCounter, dirCounter, collectFiles, emitSince, progress,
                  listed, firstFatal, cancelledEarly >>

(***************************************************************************)
(* The clock: time passes between macrotasks                               *)
(***************************************************************************)
Tick ==
  /\ ~ReactionPending
  /\ emitSince >= 0 /\ emitSince < THROTTLE_MS
  /\ handler.pc # "idle"
  /\ emitSince' = Min(emitSince + TickMs, THROTTLE_MS)
  /\ UNCHANGED << tree, options, firstResult, peer, handler, scan, scanAbortMap, frames, ops,
                  visitedRealPaths, fileCounter, dirCounter, collectFiles,
                  progress, listed, firstFatal, cancelledEarly >>

(***************************************************************************)
(* scanDirectory after statSafe(rootPath): invalid root, or walk(root, 0)  *)
(***************************************************************************)
RootStatDone ==
  /\ ~ReactionPending
  /\ scan.pc = "rootStat"
  /\ IF RootStat(tree).kind # "dir"
     THEN /\ scan' = [scan EXCEPT !.pc = "rejected", !.err = "invalidRoot"]
          /\ firstFatal' = NoteFatal("invalidRoot")
          /\ UNCHANGED frames
     ELSE /\ scan' = [scan EXCEPT !.pc = "walking"]
          /\ frames' = (<< >> :> NewFrame("walk", << >>, 0))
          /\ UNCHANGED firstFatal
  /\ UNCHANGED << tree, options, firstResult, peer, handler, scanAbortMap, ops, visitedRealPaths,
                  fileCounter, dirCounter, collectFiles, emitSince, progress,
                  listed, cancelledEarly >>

(***************************************************************************)
(* walk / sumAllBelow after fs.realpath: the visited check, then readdir   *)
(***************************************************************************)
\* a visited check that never finds the path
VisitedCheck_Never(real) == FALSE

\* visitedRealPaths.has(real)
VisitedCheck(real) == real \in visitedRealPaths

\* an add that is lost
VisitedAdd_Lost(real) == visitedRealPaths

\* visitedRealPaths.add(real), in the same synchronous run as the check
VisitedAdd(real) == visitedRealPaths \cup {real}

RealpathDone(f) ==
  /\ ~ReactionPending
  /\ frames[f].pc = "realpath"
  /\ LET real == RealPath(tree, frames[f].path)
     IN IF VisitedCheck(real)
        THEN /\ frames' = [frames EXCEPT ![f].pc = "returned"]
             /\ UNCHANGED << visitedRealPaths, dirCounter, emitSince, progress, listed >>
        ELSE /\ visitedRealPaths' = VisitedAdd(real)
             /\ listed' = Put(listed, real, Nullish(listed, real, 0) + 1)
             /\ frames' = [frames EXCEPT ![f].pc = "readdir"]
             /\ IF frames[f].kind = "walk"
                THEN /\ dirCounter' = dirCounter + 1
                     /\ emitSince' = emit("enumerating", fileCounter, dirCounter + 1).since
                     /\ progress' = emit("enumerating", fileCounter, dirCounter + 1).progress
                ELSE UNCHANGED << dirCounter, emitSince, progress >>
  /\ UNCHANGED << tree, options, firstResult, peer, handler, scan, scanAbortMap, ops, fileCounter,
                  collectFiles, firstFatal, cancelledEarly >>

(***************************************************************************)
(* walk / sumAllBelow after fs.readdir: the runner call over the entries   *)
(***************************************************************************)
ReaddirDone(f) ==
  /\ ~ReactionPending
  /\ frames[f].pc = "readdir"
  /\ LET failed == frames[f].path \in tree.unlistable \/ ~IsDir(tree, frames[f].path)
         entries == IF failed THEN << >> ELSE tree.dirs[frames[f].path]
     IN IF frames[f].kind = "sum" /\ failed
        THEN /\ frames' = [frames EXCEPT ![f].pc = "returned"]
             /\ UNCHANGED << ops, emitSince, progress, firstFatal >>
        ELSE LET r == PMap(frames, ops, f, entries, concurrency)
             IN /\ NestOK(r.frames)
                /\ frames' = r.frames
                /\ ops' = r.ops
                /\ firstFatal' = IF cancelled THEN NoteFatal("cancelled") ELSE firstFatal
                /\ IF frames[f].kind = "sum"
                   THEN /\ emitSince' = emit("enumerating", fileCounter, dirCounter).since
                        /\ progress' = emit("enumerating", fileCounter, dirCounter).progress
                   ELSE UNCHANGED << emitSince, progress >>
  /\ UNCHANGED << tree, options, firstResult, peer, handler, scan, scanAbortMap, visitedRealPaths,
                  fileCounter, dirCounter, collectFiles, listed, cancelledEarly >>

(***************************************************************************)
(* Counting a file into its directory: addFileToBreakdown, directSize,     *)
(* directFileCount (walk) or tb, size, count (sumAllBelow)                 *)
(***************************************************************************)
\* an update of the counter that is lost
Increment_Lost(count) == count

\* fileCounter.count += 1, read and written in one synchronous run
Increment(count) == count + 1

CountFile(fr, f, name, size) ==
  [fr EXCEPT ![f].typeBreakdown = addFileToBreakdown(@, getFileTypeGroup(name), size),
             ![f].directSize = @ + size,
             ![f].directFileCount = @ + 1]

FileStatsOf(fr, o, size) ==
  [id |-> makeId(FullOf(fr, o)), path |-> FullOf(fr, o), name |-> EntryOf(fr, o).name,
   parentId |-> makeId(fr[FrameOf(o)].path), depth |-> fr[FrameOf(o)].depth + 1,
   size |-> size, type |-> getFileTypeGroup(EntryOf(fr, o).name)]

\* a cap test that lets one record more through
CapReached_OffByOne == Len(collectFiles) > MAX_FILE_THRESHOLD

\* the cap test made before a FileStats is pushed
CapReached == Len(collectFiles) >= MAX_FILE_THRESHOLD

(***************************************************************************)
(* Ordinary file entry, after fs.stat(full).  The whole branch, the cap    *)
(* test of walk included, sits in try { } catch { }: a failed stat and the *)
(* cap error are both swallowed and the operation returns.                 *)
(***************************************************************************)
\* a failed stat that escapes the operation
StatFailed_Propagates(os, o) == [os EXCEPT ![o].pc = "raised", ![o].err = "stat"]

\* catch { } around fs.stat: the operation returns
StatFailed(os, o) == [os EXCEPT ![o].pc = "ok"]

StatDone(o) ==
  /\ ~ReactionPending
  /\ ops[o].pc = "stat"
  /\ LET f == FrameOf(o)
         e == EntryOf(frames, o)
     IN IF ~e.readable
        THEN /\ ops' = StatFailed(ops, o)
             /\ UNCHANGED << frames, fileCounter, collectFiles >>
        ELSE /\ frames' = CountFile(frames, f, e.name, e.size)
             /\ fileCounter' = Increment(fileCounter)
             /\ IF frames[f].kind = "walk" /\ includeFiles /\ ~CapReached
                THEN collectFiles' = Append(collectFiles, FileStatsOf(frames, o, e.size))
                ELSE UNCHANGED collectFiles
             /\ ops' = [ops EXCEPT ![o].pc = "ok"]
  /\ UNCHANGED << tree, options, firstResult, peer, handler, scan, scanAbortMap, visitedRealPaths,
                  dirCounter, emitSince, progress, listed, firstFatal, cancelledEarly >>

(***************************************************************************)
(* Followed symbolic link, after fs.realpath(full): statSafe(real) next    *)
(***************************************************************************)
LinkRealDone(o) ==
  /\ ~ReactionPending
  /\ ops[o].pc = "linkReal"
  /\ LET tgt == EntryOf(frames, o).target
         real == IF Lstat(tree, tgt).kind = "none" THEN FullOf(frames, o) ELSE tgt
     IN ops' = [ops EXCEPT ![o].pc = "linkStat", ![o].real = real]
  /\ UNCHANGED << tree, options, firstResult, peer, handler, scan, scanAbortMap, frames,
                  visitedRealPaths, fileCounter, dirCounter, collectFiles,
                  emitSince, progress, listed, firstFatal, cancelledEarly >>

(***************************************************************************)
(* Followed symbolic link, after statSafe(real): recurse into a directory, *)
(* count a file (in walk the cap error is raised out of the operation)     *)
(***************************************************************************)
LinkStatDone(o) ==
  /\ ~ReactionPending
  /\ ops[o].pc = "linkStat"
  /\ LET f == FrameOf(o)
         e == EntryOf(frames, o)
         st == Lstat(tree, ops[o].real)
     IN CASE st.kind = "dir" ->
               /\ Len(o) <= MaxNest
               /\ frames' = Put(frames, o, ChildCall(frames[f], ops[o].real))
               /\ ops' = [ops EXCEPT ![o].pc = "child"]
               /\ UNCHANGED << fileCounter, collectFiles, firstFatal >>
          [] st.kind = "file" ->
               /\ frames' = CountFile(frames, f, e.name, st.size)
               /\ fileCounter' = Increment(fileCounter)
               /\ IF frames[f].kind = "walk" /\ includeFiles
                  THEN IF CapReached
                       THEN /\ ops' = [ops EXCEPT ![o].pc = "raised", ![o].err = "cap"]
                            /\ firstFatal' = NoteFatal("cap")
                            /\ UNCHANGED collectFiles
                       ELSE /\ ops' = [ops EXCEPT ![o].pc = "ok"]
                            /\ collectFiles' = Append(collectFiles, FileStatsOf(frames, o, st.size))
                            /\ UNCHANGED firstFatal
                  ELSE /\ ops' = [ops EXCEPT ![o].pc = "ok"]
                       /\ UNCHANGED << collectFiles, firstFatal >>
          [] OTHER ->
               /\ ops' = [ops EXCEPT ![o].pc = "ok"]
               /\ UNCHANGED << frames, fileCounter, collectFiles, firstFatal >>
  /\ UNCHANGED << tree, options, firstResult, peer, handler, scan, scanAbortMap, visitedRealPaths,
                  dirCounter, emitSince, progress, listed, cancelledEarly >>

(***************************************************************************)
(* Continuation of `await walk(...)` / `await sumAllBelow(...)` inside a   *)
(* per-entry operation                                                     *)
(***************************************************************************)
\* a fold that drops the size and count of the subtree
FoldSub_BreakdownOnly(fr, f, sub) ==
  [fr EXCEPT ![f].typeBreakdown = mergeBreakdown(@, sub.typeBreakdown)]

\* node.directSize += sub.size; node.directFileCount += sub.count;
\* mergeBreakdown(node.typeBreakdown, sub.tb)
FoldSub(fr, f, sub) ==
  [fr EXCEPT ![f].directSize = @ + sub.directSize,
             ![f].directFileCount = @ + sub.directFileCount,
             ![f].typeBreakdown = mergeBreakdown(@, sub.typeBreakdown)]

ChildSettled(o) ==
  /\ ops[o].pc = "child"
  /\ FrameSettled(o)
  /\ LET f == FrameOf(o)
         c == frames[o]
     IN IF c.pc = "threw"
        THEN /\ ops' = [ops EXCEPT ![o].pc = "raised", ![o].err = c.err]
             /\ UNCHANGED frames
        ELSE /\ ops' = [ops EXCEPT ![o].pc = "ok"]
             /\ frames' = IF c.kind = "walk"
                          THEN [frames EXCEPT ![f].children = Append(@, o)]
                          ELSE FoldSub(frames, f, c)
  /\ UNCHANGED << tree, options, firstResult, peer, handler, scan, scanAbortMap, visitedRealPaths,
                  fileCounter, dirCounter, collectFiles, emitSince, progress,
                  listed, firstFatal, cancelledEarly >>

(***************************************************************************)
(* pMap: .then of a fulfilled operation (ret[cur] = v; active--; next())   *)
(***************************************************************************)
ThenCallback(o) ==
  /\ ops[o].pc = "ok"
  /\ LET f == FrameOf(o)
         r == RunNext([StoreRet(frames, o) EXCEPT ![f].active = @ - 1],
                      [ops EXCEPT ![o].pc = "done"], f, concurrency)
     IN /\ NestOK(r.frames)
        /\ frames' = r.frames
        /\ ops' = r.ops
  /\ firstFatal' = IF cancelled THEN NoteFatal("cancelled") ELSE firstFatal
  /\ UNCHANGED << tree, options, firstResult, peer, handler, scan, scanAbortMap, visitedRealPaths,
                  fileCounter, dirCounter, collectFiles, emitSince, progress,
                  listed, cancelledEarly >>

(***************************************************************************)
(* pMap: .catch(reject) of an operation that raised                        *)
(***************************************************************************)
CatchCallback(o) ==
  /\ ops[o].pc = "raised"
  /\ ops' = [ops EXCEPT ![o].pc = "failed"]
  /\ frames' = Reject(frames, FrameOf(o), ops[o].err)
  /\ UNCHANGED << tree, options, firstResult, peer, handler, scan, scanAbortMap, visitedRealPaths,
                  fileCounter, dirCounter, collectFiles, emitSince, progress,
                  listed, firstFatal, cancelledEarly >>

(***************************************************************************)
(* Continuation of `await pMap(...)` in walk / sumAllBelow: return the     *)
(* node (the sums), or rethrow                                             *)
(***************************************************************************)
PMapSettled(f) ==
  /\ frames[f].pc = "pmap"
  /\ frames[f].pstatus \in {"resolved", "rejected"}
  /\ frames' = IF frames[f].pstatus = "resolved"
               THEN [frames EXCEPT ![f].pc = "returned"]
               ELSE [frames EXCEPT ![f].pc = "threw", ![f].err = frames[f].perr]
  /\ UNCHANGED << tree, options, firstResult, peer, handler, scan, scanAbortMap, ops, visitedRealPaths,
                  fileCounter, dirCounter, collectFiles, emitSince, progress,
                  listed, firstFatal, cancelledEarly >>

(***************************************************************************)
(* scanDirectory after `await walk(rootPath, 0)`: aggregate and return,    *)
(* or reject                                                               *)
(***************************************************************************)
ScanResultOf(fr) ==
  LET aggRoot == aggregate(fr, << >>)
  IN [rootPath |-> << >>, folders |-> aggRoot.folders,
      totalSize |-> aggRoot.totalSize, totalFileCount |-> aggRoot.fileCount,
      typeBreakdown |-> aggRoot.typeBreakdown,
      files |-> IF includeFiles THEN collectFiles ELSE << >>]

ScanSettled ==
  /\ scan.pc = "walking"
  /\ FrameSettled(<< >>)
  /\ scan' = IF frames[<< >>].pc = "returned"
             THEN [pc |-> "resolved", err |-> "none", result |-> ScanResultOf(frames)]
             ELSE [pc |-> "rejected", err |-> frames[<< >>].err, result |-> << >>]
  /\ UNCHANGED << tree, options, firstResult, peer, handler, scanAbortMap, frames, ops,
                  visitedRealPaths, fileCounter, dirCounter, collectFiles,
                  emitSince, progress, listed, firstFatal, cancelledEarly >>

(***************************************************************************)
(* scan-directory handler after `await scanDirectory(...)`                 *)
(***************************************************************************)
HandlerSettled ==
  /\ handler.pc = "awaitScan"
  /\ scan.pc \in {"resolved", "rejected"}
  /\ IF scan.pc = "resolved"
     THEN /\ progress' = Append(progress,
                ProgressEvent("done", scan.result.totalFileCount, Len(scan.result.folders)))
          /\ handler' = [pc |-> "returned", ok |-> TRUE, error |-> "none"]
     ELSE /\ progress' = IF isCancelled
                         THEN Append(progress, ProgressEvent("cancelled", 0, 0))
                         ELSE progress
          /\ handler' = [pc |-> "returned", ok |-> FALSE, error |-> scan.err]
  /\ scanAbortMap' = [k \in DOMAIN scanAbortMap \ {SID} |-> scanAbortMap[k]]
  /\ UNCHANGED << tree, options, firstResult, peer, scan, frames, ops, visitedRealPaths,
                  fileCounter, dirCounter, collectFiles, emitSince, listed,
                  firstFatal, cancelledEarly >>

(***************************************************************************)
(* Specification                                                           *)
(***************************************************************************)
Reaction ==
  \/ \E o \in DOMAIN ops : ChildSettled(o)
  \/ \E o \in DOMAIN ops : ThenCallback(o)
  \/ \E o \in DOMAIN ops : CatchCallback(o)
  \/ \E f \in DOMAIN frames : PMapSettled(f)
  \/ ScanSettled
  \/ HandlerSettled

FsCompletion ==
  \/ RootStatDone
  \/ \E f \in DOMAIN frames : RealpathDone(f)
  \/ \E f \in DOMAIN frames : ReaddirDone(f)
  \/ \E o \in DOMAIN ops : StatDone(o)
  \/ \E o \in DOMAIN ops : LinkRealDone(o)
  \/ \E o \in DOMAIN ops : LinkStatDone(o)

Next ==
  \/ HandlerInvoke
  \/ CancelScan
  \/ Tick
  \/ FsCompletion
  \/ Reaction

Spec == Init /\ [][Next]_vars

\* scans that nobody cancels
NextNoCancel ==
  \/ HandlerInvoke
  \/ Tick
  \/ FsCompletion
  \/ Reaction

SpecNoCancel == Init /\ [][NextNoCancel]_vars

\* scans of the tree with a link back to an ancestor
InitCycle == Init /\ tree = TreeCycle

\* requests in which cancellation can meet the other fatal errors: links
\* followed and per-file leaves requested on the tree that exceeds the cap,
\* or a root that is not a directory
InitCancel ==
  /\ Init
  /\ tree \in {TreeCap, TreeNoRoot}
  /\ options.includeFiles /\ options.followSymlinks

\* scans, with links followed, of the tree in which a directory is reachable
\* by two routes of different depth
InitShared ==
  /\ tree = TreeShared
  /\ options \in {o \in OptionSets : o.followSymlinks /\ ~o.includeFiles}
  /\ InitMain

SpecShared == InitShared /\ [][Next]_vars

\* the same request made twice
NextTwice ==
  \/ Next
  \/ HandlerInvokeAgain

SpecTwice == InitShared /\ [][NextTwice]_vars

\* scans of the trees with hidden entries, with and without include-hidden
OptionSetsHidden ==
  [maxDepth : 0..MaxMaxDepth, followSymlinks : BOOLEAN, includeHidden : BOOLEAN,
   includeFiles : {FALSE}, concurrency : 1..MaxConcurrency, scanId : {SID}]

InitHidden ==
  /\ tree \in {TreeHiddenFlat, TreeHiddenDeep}
  /\ options \in OptionSetsHidden
  /\ InitMain

SpecHidden == InitHidden /\ [][Next]_vars

\* scans of the root of a win32 drive
OptionSetsWin ==
  [maxDepth : 0..MaxMaxDepth, followSymlinks : BOOLEAN, includeHidden : {FALSE},
   includeSystem : BOOLEAN, includeFiles : {FALSE}, concurrency : 1..MaxConcurrency,
   scanId : {SID}]

InitWin ==
  /\ tree = TreeWin
  /\ options \in OptionSetsWin
  /\ InitMain

SpecWin == InitWin /\ [][Next]_vars

\* a scan, with links followed, of a directory with a subdirectory and a
\* link to a file while another invocation with another scan id runs
InitOther ==
  /\ tree = TreeCap
  /\ options \in {o \in OptionSets : o.followSymlinks /\ ~o.includeFiles /\ o.maxDepth <= 1}
  /\ InitMain

NextOther ==
  \/ Next
  \/ OtherInvoke(OID)
  \/ OtherCancelScan
  \/ OtherSettled

SpecOther == InitOther /\ [][NextOther]_vars

\* ... while another invocation with the same scan id runs
NextSameId ==
  \/ Next
  \/ OtherInvoke(SID)
  \/ OtherSettled

SpecSameId == InitOther /\ [][NextSameId]_vars

\* requests with the concurrency option absent, below, inside and above the
\* range it is clamped into
OptionSetsClamp ==
  [maxDepth : 0..MaxMaxDepth, followSymlinks : {TRUE}, includeHidden : {FALSE},
   includeFiles : {FALSE}, scanId : {SID}]
  \cup
  [maxDepth : 0..MaxMaxDepth, followSymlinks : {TRUE}, includeHidden : {FALSE},
   includeFiles : {FALSE},
   concurrency : {-1, 0, 1, MaxConcurrency, MAX_CONCURRENCY, MAX_CONCURRENCY + 1, 300},
   scanId : {SID}]

InitClamp ==
  /\ tree = TreeCap
  /\ options \in OptionSetsClamp
  /\ InitMain

SpecClamp == InitClamp /\ [][Next]_vars

\* scans of the tree of file names
InitTypes ==
  /\ tree = TreeTypes
  /\ options \in {o \in OptionSetsHidden : o.maxDepth <= 1}
  /\ InitMain

SpecTypes == InitTypes /\ [][Next]_vars

\* every filesystem call completes and every promise reaction runs
\* (a reaction is runnable or a filesystem call is pending, never both)
Step == FsCompletion \/ Reaction

LiveSpec == Spec /\ WF_vars(Step)

LiveSpecCancel == InitCancel /\ [][Next]_vars /\ WF_vars(Step)

LiveSpecCycle == InitCycle /\ [][Next]_vars /\ WF_vars(Step)

\* scans, with links followed, of the chain of directories nested two
\* levels deep, for every concurrency limit and every depth ceiling
InitNested ==
  /\ tree = TreeChain
  /\ options \in {o \in OptionSets : o.followSymlinks /\ ~o.includeFiles}
  /\ InitMain

LiveSpecNested == InitNested /\ [][Next]_vars /\ WF_vars(Step)

TypeOK ==
  /\ handler.pc \in {"idle", "awaitScan", "returned"}
  /\ scan.pc \in {"none", "rootStat", "walking", "resolved", "rejected"}
  /\ \A f \in DOMAIN frames : frames[f].pc \in {"realpath", "readdir", "pmap", "returned", "threw"}
  /\ \A o \in DOMAIN ops : ops[o].pc \in {"stat", "linkReal", "linkStat", "child", "ok", "raised", "done", "failed"}

(***************************************************************************)
(* Properties                                                              *)
(***************************************************************************)
Resolved == scan.pc = "resolved"
Rejected == scan.pc = "rejected"

\* operations of walk that counted a file into a FolderNode: an ordinary
\* readable file entry, or a followed link that resolved to a file
CountedOrdinary ==
  {o \in DOMAIN ops : /\ frames[FrameOf(o)].kind = "walk"
                      /\ FirstPc(frames[FrameOf(o)], EntryOf(frames, o)) = "stat"
                      /\ EntryOf(frames, o).readable
                      /\ ops[o].pc \in {"ok", "done"}}

CountedLinked ==
  {o \in DOMAIN ops : /\ frames[FrameOf(o)].kind = "walk"
                      /\ FirstPc(frames[FrameOf(o)], EntryOf(frames, o)) = "linkReal"
                      /\ ops[o].pc \in {"ok", "done", "raised", "failed"}
                      /\ Lstat(tree, ops[o].real).kind = "file"}

\* C1: with per-file leaves requested, once the walk has reached more file
\* entries (ordinary or behind a followed link) than MAX_FILE_THRESHOLD,
\* scanDirectory does not return a ScanResult.
C1_CapExceededFails ==
  (includeFiles /\ Cardinality(CountedOrdinary \cup CountedLinked) > MAX_FILE_THRESHOLD)
    => ~Resolved

Settled == Resolved \/ Rejected

\* C2: a cancellation flag set after the invocation and before the root
\* runner call resolved makes scanDirectory reject and never resolve, and
\* the rejection carries the first failure raised inside the scan (the
\* cancelled failure unless another fatal error was raised first).
C2_CancelBeforeRootResolveRejects ==
  /\ [](cancelledEarly => ~Resolved)
  /\ [](cancelledEarly /\ Rejected => scan.err = firstFatal)
  /\ (cancelledEarly ~> Rejected)

\* a cancelled scan that had operations in flight below the root
C2_Witness ==
  /\ cancelledEarly /\ Rejected /\ scan.err = "cancelled"
  /\ \E o \in DOMAIN ops : Len(o) >= 2

TerminalPhases == {"done", "cancelled"}

Terminals == {k \in 1..Len(progress) : progress[k].phase \in TerminalPhases}

\* C3: after the terminal event with phase cancelled has been sent, no
\* further progress event is sent for the scan id.
C3_NoProgressAfterCancelled ==
  [][(\E k \in 1..Len(progress) : progress[k].phase = "cancelled") => progress' = progress]_vars

\* C4: when the scan-directory handler has returned, exactly one terminal
\* progress event (done or cancelled) has been sent, whatever the outcome.
C4_ExactlyOneTerminal ==
  handler.pc = "returned" => Cardinality(Terminals) = 1

\* some runner call of the scan has observed cancellation
CancelObserved ==
  \E f \in DOMAIN frames : frames[f].pstatus = "rejected" /\ frames[f].perr = "cancelled"

\* C5: once a runner call has observed cancellation, no runner call of the
\* scan starts another per-entry operation.
C5_NoStartAfterCancelObserved ==
  [][CancelObserved => \A f \in DOMAIN frames : frames'[f].i = frames[f].i]_vars

\* the runner call of frame f has been rejected by an operation that raised
RaisedIn(f) == \E o \in DOMAIN ops : FrameOf(o) = f /\ ops[o].pc = "failed"

\* C10: after an operation of a runner call has raised, that runner call
\* starts no further operation.
C10_NoStartAfterRaise ==
  [][\A f \in DOMAIN frames : RaisedIn(f) => frames'[f].i = frames[f].i]_vars

RECURSIVE SumSeq(_)
SumSeq(q) == IF q = << >> THEN 0 ELSE Head(q) + SumSeq(Tail(q))

\* the FolderStats computed from the FolderNode f
StatsOfNode(folders, f) ==
  folders[CHOOSE j \in 1..Len(folders) : folders[j].node = f]

ChildStats(folders, f) ==
  [k \in 1..Len(frames[f].children) |-> StatsOfNode(folders, frames[f].children[k])]

\* C6: in every returned ScanResult, each folder's totalSize, fileCount and
\* typeBreakdown entries are the folder's direct values plus the sum of the
\* aggregated values of its children.
C6_AggregationCorrect ==
  Resolved =>
    \A j \in 1..Len(scan.result.folders) :
      LET s == scan.result.folders[j]
          n == frames[s.node]
          ch == ChildStats(scan.result.folders, s.node)
      IN /\ s.totalSize = n.directSize + SumSeq([k \in 1..Len(ch) |-> ch[k].totalSize])
         /\ s.fileCount = n.directFileCount + SumSeq([k \in 1..Len(ch) |-> ch[k].fileCount])
         /\ \A g \in Groups :
              /\ s.typeBreakdown[g].size =
                   n.typeBreakdown[g].size + SumSeq([k \in 1..Len(ch) |-> ch[k].typeBreakdown[g].size])
              /\ s.typeBreakdown[g].count =
                   n.typeBreakdown[g].count + SumSeq([k \in 1..Len(ch) |-> ch[k].typeBreakdown[g].count])

\* a result whose root has a child folder that itself has a child folder,
\* each with files of its own
C6_Witness ==
  /\ Resolved
  /\ \E j \in 1..Len(scan.result.folders) :
       LET s == scan.result.folders[j]
       IN /\ s.depth = 1 /\ s.subfolderCount = 1
          /\ frames[s.node].directSize > 0
          /\ s.totalSize > frames[s.node].directSize

(***************************************************************************)
(* Totals of a tree computed without any depth limit: every directory      *)
(* reachable from the root through subdirectories (and, when links are     *)
(* followed, through links to directories) contributes its files once.     *)
(***************************************************************************)
Skipped(name) == ~includeHidden /\ isHiddenName(name)

\* directories one step below d
StepDirs(t, d) ==
  {Append(d, t.dirs[d][k].name) : k \in {j \in 1..Len(t.dirs[d]) :
      /\ t.dirs[d][j].kind = "dir"
      /\ ~Skipped(t.dirs[d][j].name)
      /\ ~isExcludedDir(Append(d, t.dirs[d][j].name))}}
  \cup
  {t.dirs[d][k].target : k \in {j \in 1..Len(t.dirs[d]) :
      /\ t.dirs[d][j].kind = "link"
      /\ followSymlinks
      /\ ~Skipped(t.dirs[d][j].name)
      /\ IsDir(t, t.dirs[d][j].target)}}

RECURSIVE ReachableDirs(_, _)
ReachableDirs(t, S) ==
  LET S2 == S \cup UNION {StepDirs(t, d) : d \in {x \in S : x \notin t.unlistable}}
  IN IF S2 = S THEN S ELSE ReachableDirs(t, S2)

\* the size an entry contributes as a file, or -1 when it contributes nothing
FileSizeOf(t, e) ==
  IF Skipped(e.name) THEN -1
  ELSE IF e.kind = "file" THEN (IF e.readable THEN e.size ELSE -1)
  ELSE IF e.kind = "link" /\ followSymlinks /\ Lstat(t, e.target).kind = "file"
       THEN Lstat(t, e.target).size
  ELSE -1

\* the counted files: <<directory, index>> pairs
CountedFiles(t) ==
  IF ~IsDir(t, << >>) THEN {}
  ELSE {de \in UNION {{<<d, k>> : k \in 1..Len(t.dirs[d])} :
                        d \in {x \in ReachableDirs(t, {<< >>}) : x \notin t.unlistable}} :
          FileSizeOf(t, t.dirs[de[1]][de[2]]) >= 0}

RECURSIVE SumFiles(_, _)
SumFiles(t, S) ==
  IF S = {} THEN 0
  ELSE LET de == CHOOSE x \in S : TRUE
       IN FileSizeOf(t, t.dirs[de[1]][de[2]]) + SumFiles(t, S \ {de})

TreeTotals(t) ==
  [totalSize |-> SumFiles(t, CountedFiles(t)),
   fileCount |-> Cardinality(CountedFiles(t)),
   typeBreakdown |->
     [g \in Groups |->
        LET Sg == {de \in CountedFiles(t) : getFileTypeGroup(t.dirs[de[1]][de[2]].name) = g}
        IN [size |-> SumFiles(t, Sg), count |-> Cardinality(Sg)]]]

RootTotals ==
  [totalSize |-> scan.result.totalSize,
   fileCount |-> scan.result.totalFileCount,
   typeBreakdown |-> scan.result.typeBreakdown]

\* C7: the root's totalSize, fileCount and typeBreakdown of a returned
\* result are the depth-free totals of the tree, whatever maxDepth is and
\* whatever the interleaving; only the number of folder nodes differs.
C7_TotalsIndependentOfMaxDepth ==
  Resolved => RootTotals = TreeTotals(tree)

\* a result in which a subtree with files was folded by sumAllBelow
C7_Witness ==
  /\ Resolved
  /\ \E f \in DOMAIN frames : frames[f].kind = "sum" /\ frames[f].directFileCount > 0
  /\ Len(scan.result.folders) < Cardinality(ReachableDirs(tree, {<< >>}))

IsPrefix(p, q) == Len(p) <= Len(q) /\ SubSeq(q, 1, Len(p)) = p

\* link entry j of directory d points to d or to an ancestor of d
BackLink(t, d, j) == t.dirs[d][j].kind = "link" /\ IsPrefix(t.dirs[d][j].target, d)

HasBackLink(t) == \E d \in DOMAIN t.dirs : \E j \in 1..Len(t.dirs[d]) : BackLink(t, d, j)

SelectSeq2(q, Keep(_)) ==
  LET idx == {j \in 1..Len(q) : Keep(j)}
      RECURSIVE Build(_, _)
      Build(k, acc) == IF k > Len(q) THEN acc
                       ELSE Build(k + 1, IF k \in idx THEN Append(acc, q[k]) ELSE acc)
  IN Build(1, << >>)

\* the same tree with the links back to ancestors removed
WithoutBackLinks(t) ==
  [t EXCEPT !.dirs = [d \in DOMAIN t.dirs |->
                        LET Keep(j) == ~BackLink(t, d, j)
                        IN SelectSeq2(t.dirs[d], Keep)]]

CycleCase == HasBackLink(tree) /\ followSymlinks

\* C8: with links followed, a scan of a tree with a link back to an
\* ancestor settles, and a returned result has the root totals of the same
\* tree without that link.
C8_CycleTerminatesWithSameTotals ==
  /\ [](CycleCase /\ Resolved => RootTotals = TreeTotals(WithoutBackLinks(tree)))
  /\ ((CycleCase /\ scan.pc = "rootStat") ~> Settled)

\* a result of a scan that followed the link back to the root and stopped
\* at the visited check
C8_Witness ==
  /\ CycleCase /\ Resolved
  /\ \E o \in DOMAIN ops :
       /\ BackLink(tree, frames[FrameOf(o)].path, Last(o))
       /\ o \in DOMAIN frames
       /\ frames[o].pc = "returned" /\ frames[o].pstatus = "none"

\* C9: within one scan every canonical directory path is listed (readdir)
\* at most once, by walk and sumAllBelow together.
C9_ListedAtMostOnce ==
  \A p \in DOMAIN listed : listed[p] <= 1

\* two calls resolved the same canonical path; one listed it, the other
\* stopped at the visited check
C9_Witness ==
  \E f1, f2 \in DOMAIN frames :
    /\ f1 # f2
    /\ frames[f1].path = frames[f2].path
    /\ frames[f1].pc \in {"readdir", "pmap", "returned"} /\ frames[f1].pstatus # "none"
    /\ frames[f2].pc = "returned" /\ frames[f2].pstatus = "none"
    /\ frames[f2].path \notin tree.unlistable

\* the nesting bound is never what stops a scan
NestBoundNotReached == \A f \in DOMAIN frames : Len(f) < MaxNest

(***************************************************************************)
(* The runner: operations in flight                                        *)
(***************************************************************************)
\* the operation has been started and has not settled: it waits for a
\* filesystem call of its own or for the recursive call it made
InFlight(o) == ops[o].pc \in {"stat", "linkReal", "linkStat", "child"}

OpsOf(f) == {o \in DOMAIN ops : FrameOf(o) = f}

\* C11: a runner call is never rejected, and its caller never receives the
\* failure, while an operation the call started is still in flight.
C11_RejectedOnlyWhenSettled ==
  \A f \in DOMAIN frames :
    frames[f].pstatus = "rejected" => \A o \in OpsOf(f) : ~InFlight(o)

\* C12: the operations of one runner call that are in flight are never
\* more than the limit passed to the call.
C12_InFlightWithinLimit ==
  \A f \in DOMAIN frames : Cardinality({o \in OpsOf(f) : InFlight(o)}) <= concurrency

\* a runner call with limit-many operations in flight and items left to start
C12_Witness ==
  \E f \in DOMAIN frames :
    /\ frames[f].pstatus = "pending"
    /\ Cardinality({o \in OpsOf(f) : InFlight(o)}) = concurrency
    /\ frames[f].i < Len(frames[f].entries)

\* C13: a runner call resolves only when the operation of every item has
\* completed, with the result of the operation on item k at index k of the
\* resolved array; a call over an empty list that is not cancelled resolves
\* at once.
C13_ResolvesCompleteInOrder ==
  \A f \in DOMAIN frames :
    /\ frames[f].pstatus = "resolved" =>
         /\ Len(frames[f].ret) = Len(frames[f].entries)
         /\ \A k \in 1..Len(frames[f].entries) :
              /\ Append(f, k) \in DOMAIN ops
              /\ ops[Append(f, k)].pc = "done"
              /\ frames[f].ret[k] = Append(f, k)
    /\ (frames[f].pc = "pmap" /\ frames[f].entries = << >> /\ frames[f].pstatus # "rejected")
         => frames[f].pstatus = "resolved"

\* a resolved call over several items run two at a time, and a resolved
\* call over an empty list
C13_Witness ==
  /\ concurrency >= 2
  /\ \E f \in DOMAIN frames :
       frames[f].pstatus = "resolved" /\ Len(frames[f].entries) >= 3
  /\ \E f \in DOMAIN frames :
       frames[f].pstatus = "resolved" /\ frames[f].entries = << >>

\* the operations, of all runner calls of the scan, that wait for a
\* filesystem call of their own (an operation that waits for the recursive
\* call it made is not counted)
LeafInFlight == {o \in DOMAIN ops : ops[o].pc \in {"stat", "linkReal", "linkStat"}}

\* C14: at every moment of a scan the per-entry operations in flight, over
\* all nested runner calls of walk and sumAllBelow together, are at most
\* the configured concurrency.
C14_SharedCeiling == Cardinality(LeafInFlight) <= concurrency

\* C15: a second scan of the same unchanged tree with the same options
\* returns the same set of (identifier, path) pairs and, for every folder,
\* the same totalSize, fileCount and typeBreakdown as the first.
C15_SameResultTwice ==
  (Resolved /\ firstResult # {}) => Digest(scan.result) = firstResult

\* C16: with maxDepth <= 0 the depth is unlimited: a returned result has a
\* FolderStats node for every directory the walk reaches, at any depth, and
\* no directory is folded into an ancestor by sumAllBelow.
C16_NonPositiveDepthUnlimited ==
  (Resolved /\ maxDepth <= 0) =>
    /\ {scan.result.folders[j].path : j \in 1..Len(scan.result.folders)}
         = ReachableDirs(tree, {<< >>})
    /\ \A f \in DOMAIN frames : frames[f].kind = "walk"

\* the root path, links followed, names an existing directory
RootResolvesToDir(t) == IsDir(t, << >>)

\* C17: scanDirectory fails with the invalid-root error exactly when the
\* root path does not resolve to an existing directory (a root that is a
\* link to a directory resolves to one); when it fails so, no directory has
\* been listed and there is no ScanResult.
C17_InvalidRootIff ==
  Settled =>
    /\ (scan.err = "invalidRoot") <=> ~RootResolvesToDir(tree)
    /\ scan.err = "invalidRoot" => (listed = << >> /\ scan.result = << >> /\ ~Resolved)

\* what is left of a failure when its message is set aside
ErrorTag(e) == [k \in DOMAIN e \ {"message"} |-> e[k]]

\* C18: the failure of a scan that observed cancellation has a kind that
\* differs from the kind of the invalid-root and cap-exceeded failures, so
\* that a caller can tell them apart without looking at the message.
C18_CancelledKindDistinct ==
  (Rejected /\ scan.err = "cancelled") =>
    \A other \in {"invalidRoot", "cap"} :
      ErrorTag(ErrorObject(scan.err)) # ErrorTag(ErrorObject(other))

\* the tree has a directory that cannot be listed or a file whose size
\* cannot be read
HasTransient(t) ==
  \/ t.unlistable # {}
  \/ \E d \in DOMAIN t.dirs : \E j \in 1..Len(t.dirs[d]) :
       t.dirs[d][j].kind = "file" /\ ~t.dirs[d][j].readable

FatalKinds == {"invalidRoot", "cancelled", "cap"}

WithoutHidden(t) ==
  [t EXCEPT !.dirs = [d \in DOMAIN t.dirs |->
                        LET Keep(j) == ~isHiddenName(t.dirs[d][j].name)
                        IN SelectSeq2(t.dirs[d], Keep)]]

HiddenPath(p) == \E k \in 1..Len(p) : isHiddenName(p[k])

\* C20: with include-hidden false a returned result is that of the tree
\* without its hidden entries: no node for a hidden directory or anything
\* below it, no size and no count from a hidden file, also inside subtrees
\* folded by sumAllBelow; with include-hidden true every entry is counted.
\* One visible file of 100 bytes and one hidden file of 50 bytes give
\* fileCount 1 / totalSize 100, respectively 2 / 150.
C20_HiddenExcluded ==
  Resolved =>
    /\ RootTotals = TreeTotals(IF includeHidden THEN tree ELSE WithoutHidden(tree))
    /\ ~includeHidden => \A f \in DOMAIN frames : ~HiddenPath(frames[f].path)
    /\ includeHidden =>
         \A d \in DOMAIN tree.dirs :
           \E f \in DOMAIN frames : frames[f].path = d /\ frames[f].pstatus = "resolved"
    /\ tree = TreeHiddenFlat =>
         << scan.result.totalFileCount, scan.result.totalSize >>
           = (IF includeHidden THEN << 2, 150 >> ELSE << 1, 100 >>)

\* a result, with include-hidden false, in which a subdirectory holding a
\* hidden file was folded by sumAllBelow
C20_Witness ==
  /\ Resolved /\ ~includeHidden /\ tree = TreeHiddenDeep
  /\ \E f \in DOMAIN frames :
       /\ frames[f].kind = "sum" /\ frames[f].pstatus = "resolved"
       /\ \E k \in 1..Len(frames[f].entries) : isHiddenName(frames[f].entries[k].name)
       /\ frames[f].directFileCount = 1

FolderIds(folders) == {folders[j].id : j \in 1..Len(folders)}

\* C22: in every returned ScanResult each identifier in a folder's
\* childrenIds is the identifier of a FolderStats of the same collection,
\* and each FolderStats other than the root's is named in the childrenIds
\* of some folder of the collection.
C22_NoDanglingChildIds ==
  Resolved =>
    LET fs == scan.result.folders
    IN /\ \A j \in 1..Len(fs) : \A k \in 1..Len(fs[j].childrenIds) :
            fs[j].childrenIds[k] \in FolderIds(fs)
       /\ \E j \in 1..Len(fs) : fs[j].node = << >>
       /\ \A j \in 1..Len(fs) :
            fs[j].node # << >> =>
              \E p \in 1..Len(fs) : \E k \in 1..Len(fs[p].childrenIds) :
                fs[p].childrenIds[k] = fs[j].id

\* a result with a folder two levels below the root
C22_Witness ==
  /\ Resolved
  /\ \E j \in 1..Len(scan.result.folders) :
       scan.result.folders[j].depth = 2 /\ scan.result.folders[j].fileCount > 0

\* the entries of a listed directory that give a child node: subdirectories
\* and, with links followed, links that resolve to a directory
ChildEntries(F) ==
  {k \in 1..Len(F.entries) :
     /\ ~Skipped(F.entries[k].name)
     /\ \/ F.entries[k].kind = "dir" /\ ~isExcludedDir(Append(F.path, F.entries[k].name))
        \/ F.entries[k].kind = "link" /\ followSymlinks /\ IsDir(tree, F.entries[k].target)}

\* C23: in every returned ScanResult a folder's subfolderCount is the
\* number of its immediate child nodes, the length of its childrenIds,
\* never a count of deeper descendants; a folder at the depth ceiling has
\* subfolderCount 0.
C23_SubfolderCountImmediate ==
  Resolved =>
    \A j \in 1..Len(scan.result.folders) :
      LET s == scan.result.folders[j]
          F == frames[s.node]
      IN /\ s.subfolderCount = Len(s.childrenIds)
         /\ s.subfolderCount = Len(F.children)
         /\ s.depth >= maxDepth => s.subfolderCount = 0
         /\ s.depth < maxDepth => s.subfolderCount = Cardinality(ChildEntries(F))

\* a result whose root has one child folder and a grandchild folder
C23_Witness ==
  /\ Resolved
  /\ \E j \in 1..Len(scan.result.folders) :
       /\ scan.result.folders[j].node = << >>
       /\ scan.result.folders[j].subfolderCount = 1
       /\ Len(scan.result.folders) >= 3

\* the same tree with every link taken out of the listings
WithoutLinks(t) ==
  [t EXCEPT !.dirs = [d \in DOMAIN t.dirs |->
                        LET Keep(j) == t.dirs[d][j].kind # "link"
                        IN SelectSeq2(t.dirs[d], Keep)]]

\* the operations started for link entries
LinkOps == {o \in DOMAIN ops : EntryOf(frames, o).kind = "link"}

\* C30: with follow-symlinks false a symbolic-link entry contributes
\* nothing, in walk and in sumAllBelow: its operation returns without a
\* filesystem call, no call of walk or sumAllBelow is made for it (so its
\* target is not listed through it), it gives no child node and no
\* FileStats, and a returned result is that of the tree without its links.
C30_LinksSkippedByDefault ==
  ~Nullish(options, "followSymlinks", FALSE) =>
    /\ \A o \in LinkOps : ops[o].pc \in {"ok", "done"} /\ o \notin DOMAIN frames
    /\ \A f \in DOMAIN frames : \A k \in 1..Len(frames[f].children) :
         frames[f].children[k] \notin LinkOps
    /\ \A k \in 1..Len(collectFiles) :
         \A o \in LinkOps : collectFiles[k].path # FullOf(frames, o)
    /\ Resolved => RootTotals = TreeTotals(WithoutLinks(tree))

\* a returned result, links not followed, of a tree with a link to a
\* directory met by walk or by sumAllBelow
C30_Witness ==
  /\ Resolved /\ ~Nullish(options, "followSymlinks", FALSE)
  /\ \E o \in LinkOps : ops[o].pc = "done" /\ IsDir(tree, EntryOf(frames, o).target)
  /\ scan.result.totalFileCount > 0

\* the category the classifier is to give the file names of TreeTypes
ExpectedGroup(name) ==
  CASE name = "movie.TS"  -> "code"
    [] name = "clip.Mp4"  -> "video"
    [] name = "a.tar.gz"  -> "archive"
    [] name = "x.unknown" -> "other"
    [] name = "README"    -> "other"
    [] name = ".bashrc"   -> "other"
    [] name = "l"         -> "other"

AllExts ==
  VideoExts \cup ImageExts \cup AudioExts \cup DocumentExts \cup CodeExts \cup ArchiveExts

\* the classifier over every modelled name and every extension of the table
ClassifierTotal ==
  /\ \A n \in DOMAIN Spell : getFileTypeGroup(n) \in Groups
  /\ \A e \in AllExts :
       /\ e \in DOMAIN EXT_MAP /\ EXT_MAP[e] \in Groups \ {"other"}
       /\ Lookup(Spell[e]) = EXT_MAP[e]
  /\ \A n \in DOMAIN Spell :
       getFileTypeGroup(n) = (IF \E e \in AllExts : Spell[e] = ExtOf(n)
                              THEN EXT_MAP[CHOOSE e \in AllExts : Spell[e] = ExtOf(n)]
                              ELSE "other")
  /\ \A n \in {"movie.TS", "clip.Mp4", "a.tar.gz", "x.unknown", "README", ".bashrc"} :
       getFileTypeGroup(n) = ExpectedGroup(n)

\* C29: getFileTypeGroup gives every name one category of the closed set,
\* decided by the lower-cased last extension alone: every extension of the
\* table has one category other than `other`, and names without an
\* extension or with an unlisted one are `other`.  A returned result of the
\* tree of file names counts movie.TS as code, clip.Mp4 as video, a.tar.gz
\* as archive and the rest as other.
C29_ClassifierTotal ==
  /\ ClassifierTotal
  /\ (Resolved /\ tree = TreeTypes) =>
       LET tb == scan.result.typeBreakdown
           h  == IF includeHidden THEN 1 ELSE 0
           l  == IF followSymlinks THEN 1 ELSE 0
       IN /\ tb["code"] = [size |-> 1, count |-> 1]
          /\ tb["video"] = [size |-> 2, count |-> 1]
          /\ tb["archive"] = [size |-> 16, count |-> 1]
          /\ tb["other"] = [size |-> 36 + 8 * h + 32 * l, count |-> 2 + h + l]
          /\ \A g \in {"image", "audio", "document"} : tb[g] = [size |-> 0, count |-> 0]

\* a returned result of the tree of file names, hidden files included, that
\* has counted movie.TS, clip.Mp4 and the rest
C29_Witness ==
  /\ Resolved /\ tree = TreeTypes /\ includeHidden /\ maxDepth = 1
  /\ followSymlinks
  /\ scan.result.typeBreakdown["code"].count = 1
  /\ scan.result.typeBreakdown["video"].count = 1
  /\ scan.result.typeBreakdown["archive"].count = 1
  /\ scan.result.typeBreakdown["other"].count = 4

\* a path equal to or below <root of the drive>/Users/<name>/AppData, in
\* whatever letter case it is written
UnderAppData(p) ==
  LET s == Segments(p)
  IN /\ Len(s) >= 3
     /\ toLowerCase(s[1]) = toLowerCase(Spell["Users"])
     /\ toLowerCase(s[3]) = toLowerCase(Spell["AppData"])

ExclusionActive == isWindows /\ ~includeSystem

\* C24: with the exclusion of system directories active, isExcludedDir is
\* true for every directory equal to or below <root>/Users/<name>/AppData
\* that a listing meets, so none of them is ever listed.
C24_AppDataExcluded ==
  ExclusionActive =>
    /\ \A o \in DOMAIN ops :
         (EntryOf(frames, o).kind = "dir" /\ UnderAppData(FullOf(frames, o)))
           => isExcludedDir(FullOf(frames, o))
    /\ \A p \in DOMAIN listed : ~UnderAppData(p)

\* C25: with the exclusion of system directories active, no directory that
\* isExcludedDir rejects is ever listed, by walk or by sumAllBelow, met as
\* a subdirectory or as the target of a followed link.
C25_ExcludedNeverListed ==
  ExclusionActive =>
    \A p \in DOMAIN listed : ~isExcludedDir(p)

C27_CancelMakesFailure ==
  cancelledEarly => ~(handler.pc = "returned" /\ handler.ok)

\* the ceiling the request asks for, clamped
EffectiveCeiling ==
  IF "concurrency" \notin DOMAIN options THEN 64
  ELSE IF options.concurrency <= 0 THEN 1
  ELSE IF options.concurrency > 256 THEN 256
  ELSE options.concurrency

\* C28: the effective concurrency ceiling is 64 when the option is absent,
\* 1 for values <= 0, 256 for values > 256 and the value itself otherwise,
\* and it is the ceiling every runner call keeps to and can reach.
C28_ConcurrencyClamped ==
  /\ concurrency = EffectiveCeiling
  /\ \A f \in DOMAIN frames :
       /\ frames[f].active <= EffectiveCeiling
       /\ (frames[f].pc = "pmap" /\ frames[f].pstatus = "pending" /\ ~ReactionPending)
            => frames[f].active = Min(EffectiveCeiling, Len(frames[f].entries) - (frames[f].i - frames[f].active))

\* a runner call of a request with concurrency 0 that has one operation in
\* flight and another entry waiting
C28_Witness ==
  /\ "concurrency" \in DOMAIN options /\ options.concurrency <= 0
  /\ \E f \in DOMAIN frames :
       /\ frames[f].pc = "pmap" /\ frames[f].pstatus = "pending"
       /\ frames[f].active = 1 /\ frames[f].i < Len(frames[f].entries)

\* C31: the terminal event with phase cancelled is sent only for a scan
\* whose failure is the cancelled failure; a scan that failed with the
\* invalid-root or the cap-exceeded error is never reported as cancelled.
C31_CancelledOnlyForCancelledFailure ==
  (handler.pc = "returned" /\ ~handler.ok /\ handler.error \in {"invalidRoot", "cap"})
    => \A k \in 1..Len(progress) : progress[k].phase # "cancelled"

\* the depths of a result: the root at 0, no folder below a ceiling d > 0
DepthsWithinCeiling ==
  Resolved =>
    LET fs == scan.result.folders
    IN /\ \A j \in 1..Len(fs) : fs[j].node = << >> => fs[j].depth = 0
       /\ maxDepth > 0 => \A j \in 1..Len(fs) : fs[j].depth <= maxDepth

\* C32: in every returned ScanResult the root folder has depth 0, a folder
\* named by the childrenIds of another has the depth of that folder plus 1,
\* and for maxDepth d > 0 no folder has a depth greater than d.
C32_DepthsConsistent ==
  /\ DepthsWithinCeiling
  /\ Resolved =>
       LET fs == scan.result.folders
       IN \A p \in 1..Len(fs) : \A k \in 1..Len(fs[p].childrenIds) :
            \A j \in 1..Len(fs) :
              fs[j].id = fs[p].childrenIds[k] => fs[j].depth = fs[p].depth + 1

\* C33: in the sequence of progress events sent for the scan id, the
\* terminal event included, scannedFiles and scannedDirs never decrease
\* from one event to the next.
C33_CountersNeverDecrease ==
  \A k \in 1..Len(progress) - 1 :
    /\ progress[k].scannedFiles <= progress[k + 1].scannedFiles
    /\ progress[k].scannedDirs <= progress[k + 1].scannedDirs

\* the counters of the events before the terminal event never decrease
EnumeratingCountersNeverDecrease ==
  \A k \in 1..Len(progress) - 1 :
    progress[k + 1].phase = "enumerating" =>
      /\ progress[k].scannedFiles <= progress[k + 1].scannedFiles
      /\ progress[k].scannedDirs <= progress[k + 1].scannedDirs

\* the terminal event of a scan that succeeded does not bring the counters down
DoneCountersNeverDecrease ==
  \A k \in 1..Len(progress) - 1 :
    progress[k + 1].phase = "done" =>
      /\ progress[k].scannedFiles <= progress[k + 1].scannedFiles
      /\ progress[k].scannedDirs <= progress[k + 1].scannedDirs

C35_NoLostCounterUpdate ==
  Resolved =>
    /\ fileCounter = scan.result.totalFileCount
    /\ \A j \in 1..Len(scan.result.folders) :
         scan.result.folders[j].node = << >> => scan.result.folders[j].fileCount = fileCounter

\* a result of a scan with two operations in flight at a time that counted
\* files in walk and in sumAllBelow
C35_Witness ==
  /\ Resolved /\ concurrency >= 2 /\ fileCounter >= 3
  /\ \E f \in DOMAIN frames : frames[f].kind = "sum" /\ frames[f].directFileCount > 0
  /\ \E f \in DOMAIN frames : frames[f].kind = "walk" /\ frames[f].directFileCount > 0

\* C36: at every point of a scan the number of collected FileStats records
\* is at most MAX_FILE_THRESHOLD, and so is the number of records in the
\* files list of every returned ScanResult.
C36_CollectedWithinCap ==
  /\ Len(collectFiles) <= MAX_FILE_THRESHOLD
  /\ Resolved => Len(scan.result.files) <= MAX_FILE_THRESHOLD

\* a returned result with per-file leaves whose files list is full
C36_Witness ==
  /\ Resolved /\ includeFiles /\ concurrency >= 2
  /\ Len(scan.result.files) = MAX_FILE_THRESHOLD

\* the identifiers one or more childrenIds steps below the identifiers of S
RECURSIVE DescendantIds(_, _)
DescendantIds(fs, S) ==
  LET step == UNION {{fs[j].childrenIds[k] : k \in 1..Len(fs[j].childrenIds)} :
                        j \in {i \in 1..Len(fs) : fs[i].id \in S}}
      S2 == S \cup step
  IN IF S2 = S THEN step ELSE step \cup DescendantIds(fs, S2)

\* C37: in every returned ScanResult the folder identifiers are pairwise
\* distinct, no identifier is listed as a child more than once, and no
\* folder is its own descendant by childrenIds, links to visited
\* directories and to ancestors included.
C37_FoldersFormTree ==
  Resolved =>
    LET fs == scan.result.folders
    IN /\ \A j, k \in 1..Len(fs) : j # k => fs[j].id # fs[k].id
       /\ \A p, q \in 1..Len(fs) : \A k \in 1..Len(fs[p].childrenIds) :
            \A m \in 1..Len(fs[q].childrenIds) :
              (p # q \/ k # m) => fs[p].childrenIds[k] # fs[q].childrenIds[m]
       /\ \A j \in 1..Len(fs) : fs[j].id \notin DescendantIds(fs, {fs[j].id})

\* the runner calls that frame f waits inside of
Ancestors(f) == {SubSeq(f, 1, n) : n \in 0..(Len(f) - 1)}

\* C38: every scanDirectory invocation eventually settles when every
\* filesystem call completes, for every concurrency limit from 1 on and
\* every nesting depth; a nested runner call that has entries to work on
\* has an operation of its own in flight, whatever its ancestors hold.
C38_EveryScanSettles ==
  /\ (scan.pc = "rootStat") ~> Settled
  /\ [](\A f \in DOMAIN frames :
         (/\ frames[f].pc = "pmap" /\ frames[f].pstatus = "pending"
          /\ ~ReactionPending)
           => frames[f].active >= 1)

\* with limit 1, a runner call two levels below the root has its one
\* operation in flight while every ancestor has its one slot taken
C38_Witness ==
  /\ concurrency = 1
  /\ \E f \in DOMAIN frames :
       /\ Len(f) >= 2
       /\ frames[f].pc = "pmap" /\ frames[f].pstatus = "pending" /\ frames[f].active = 1
       /\ \A g \in Ancestors(f) : frames[g].pstatus = "pending" /\ frames[g].active = 1

====
